---- MODULE Spec2Model ----
(***************************************************************************)
(* Model of the coverage instrumentation pass of swc-plugin-istanbul-oxi.  *)
(*                                                                         *)
(* Two state machines share the variables below:                           *)
(*   Spec       the pass of src/lib.rs: process, visit_mut_program,        *)
(*              visit_mut_module_items, visit_mut_stmts with the           *)
(*              StmtVisitor of lib.rs, and the trailing coverage comment;  *)
(*   SpecRules  the rewrite rules of src/utils/visitor_macros.rs applied   *)
(*              to a statement list by the visitor the macros generate.    *)
(*                                                                         *)
(* The AST is a tree of uniform records                                    *)
(*   [k: kind, sp: span, v: string, n: number, c: sequence of children].   *)
(***************************************************************************)
EXTENDS Integers, Sequences, FiniteSets, TLC

VARIABLES
    pc,          \* position of the pass
    context,     \* metadata.transform_context, decoded shape
    config,      \* metadata.plugin_config, decoded shape
    comments,    \* the comment store (metadata.comments)
    input,       \* the program handed to the pass
    program,     \* the program being rewritten / returned
    file_path,   \* CoverageVisitor.file_path
    var_name,    \* CoverageVisitor.var_name (the coverage identifier)
    opts,        \* CoverageVisitor.instrument_options
    cov,         \* CoverageVisitor.cov (SourceCoverage)
    tmpl_map,    \* the map literal create_coverage_fn_decl embedded in the preamble
    nodes,       \* the NodePath of the generated visitor
    run,         \* number of the current run of the pass
    prev         \* summary of the previous completed run

vars == << pc, context, config, comments, input, program, file_path, var_name,
           opts, cov, tmpl_map, nodes, run, prev >>

---------------------------------------------------------------------------
(* Bounds of the model *)

\* width of a source line, for the position service
LineWidth == 8
\* number of runs of the pass in one behaviour
MaxRuns == 2

---------------------------------------------------------------------------
(* AST *)

Nd(k, sp, v, n, c) == [k |-> k, sp |-> sp, v |-> v, n |-> n, c |-> c]

Sp(lo, hi) == [lo |-> lo, hi |-> hi]

\* swc_common DUMMY_SP: the span of every synthesized node
DUMMY_SP == Sp(0, 0)

Ident(sym, sp) == Nd("Ident", sp, sym, 0, <<>>)

Num(value) == Nd("Num", DUMMY_SP, "", value, <<>>)

CallExpr(callee, sp) == Nd("Call", sp, "", 0, <<callee>>)

MemberIdent(obj, prop) == Nd("Member", DUMMY_SP, "ident", 0, <<obj, Ident(prop, DUMMY_SP)>>)

MemberComputed(obj, e) == Nd("Member", DUMMY_SP, "computed", 0, <<obj, e>>)

UpdateExpr(arg) == Nd("Update", DUMMY_SP, "++", 0, <<arg>>)

ExprStmt(expr, sp) == Nd("ExprStmt", sp, "", 0, <<expr>>)

BlockStmt(stmts, sp) == Nd("Block", sp, "", 0, stmts)

ReturnStmt(arg, sp) == Nd("Return", sp, "", 0, <<arg>>)

IfStmt(test, cons, sp) == Nd("If", sp, "", 0, <<test, cons>>)

IfElseStmt(test, cons, alt, sp) == Nd("If", sp, "", 0, <<test, cons, alt>>)

BinExpr(op, left, right, sp) == Nd("Bin", sp, op, 0, <<left, right>>)

ParenExpr(e, sp) == Nd("Paren", sp, "", 0, <<e>>)

SeqExpr(exprs, sp) == Nd("Seq", sp, "", 0, exprs)

\* BlockStmt owned by a Function: a statement list that is not itself a Stmt
FnBody(stmts, sp) == Nd("FnBody", sp, "", 0, stmts)

Function(body, sp) == Nd("Function", sp, "", 0, body)

FnDecl(name, function, idsp) == Nd("FnDecl", idsp, name, 0, <<function>>)

\* Lit::Str
Str(value, sp) == Nd("Str", sp, value, 0, <<>>)

ContinueStmt(sp) == Nd("Continue", sp, "", 0, <<>>)

LabeledStmt(label, body, sp) == Nd("Labeled", sp, label, 0, <<body>>)

\* VarDeclarator { span, name, init: Option<Box<Expr>> }: init is <<>> or <<expr>>
VarDeclarator(name, init, sp) == Nd("VarDeclarator", sp, name, 0, init)

VarDecl(decls, sp) == Nd("VarDecl", sp, "", 0, decls)

\* ArrowExpr { span, body: BlockStmtOrExpr }: body is a FnBody or an expression
ArrowExpr(body, sp) == Nd("Arrow", sp, "", 0, <<body>>)

\* FnExpr { ident: Option<Ident>, function }: ident is <<>> or <<Ident>>; the span
\* of the expression is the span of the function
FnExpr(ident, function) == Nd("FnExpr", function.sp, "", 0, ident \o <<function>>)

\* ClassMethod { span, key: PropName, function }: key is an Ident or a Str
ClassMethod(key, function, sp) == Nd("ClassMethod", sp, "", 0, <<key, function>>)

\* ClassDecl { ident, class: Class { span, body: Vec<ClassMember> } }
ClassDecl(name, body, sp) == Nd("ClassDecl", sp, name, 0, body)

Module(body, sp) == Nd("Module", sp, "", 0, body)

Script(body, sp) == Nd("Script", sp, "", 0, body)

\* the variants of swc's Stmt enum that the model builds
StmtKinds ==
    {"ExprStmt", "Block", "Return", "If", "FnDecl", "CovFnDecl", "Continue", "Labeled",
     "VarDecl", "ClassDecl"}

\* the nodes holding a Vec<Stmt>
StmtListKinds == {"Block", "FnBody", "Script"}

LogicalOps == {"||", "&&", "??"}

---------------------------------------------------------------------------
(* Position service and ranges *)

\* source_map.lookup_char_pos: byte offset -> (1-based line, 0-based column)
lookup_char_pos(pos) == [line |-> (pos \div LineWidth) + 1, col |-> pos % LineWidth]

\* istanbul_oxi_instrument::Range::new(start_line, start_column, end_line, end_column)
Range_new(start_line, start_column, end_line, end_column) ==
    [start |-> [line |-> start_line, column |-> start_column],
     end   |-> [line |-> end_line, column |-> end_column]]

\* utils::lookup_range::get_range_from_span: start from span.lo, end from span.hi
get_range_from_span(span) ==
    LET lo == lookup_char_pos(span.lo)
        hi == lookup_char_pos(span.hi)
    IN  Range_new(lo.line, lo.col, hi.line, hi.col)

\* get_expr_span / get_stmt_span: no span for a synthesized node
HasSpan(node) == node.sp # DUMMY_SP

---------------------------------------------------------------------------
(* Comments.  A comment text is a sequence of tokens: "ws" is one whitespace *)
(* character, "nw" one character that is neither a word character nor        *)
(* whitespace, "w" one word character, and any other token is that word.     *)

RECURSIVE SkipWs(_, _)
\* the first index >= i of t that does not hold whitespace
SkipWs(t, i) == IF i <= Len(t) /\ t[i] = "ws" THEN SkipWs(t, i + 1) ELSE i

\* ^\s*istanbul\s+ignore\s+(<word>)(\W|$)
IgnoreRegexMatch(t, word) ==
    LET i == SkipWs(t, 1)
        j == SkipWs(t, i + 1)
        k == SkipWs(t, j + 1)
    IN  /\ i <= Len(t) /\ t[i] = "istanbul"
        /\ j > i + 1
        /\ j <= Len(t) /\ t[j] = "ignore"
        /\ k > j + 1
        /\ k <= Len(t) /\ t[k] = word
        /\ (IF k = Len(t) THEN TRUE ELSE t[k + 1] \in {"ws", "nw"})

\* COMMENT_FILE_REGEX.is_match(&comment.text)
COMMENT_FILE_REGEX_is_match(t) == IgnoreRegexMatch(t, "file")

\* comments.get_leading(pos) / get_trailing(pos): the comments stored at pos
get_leading(pos) == IF pos \in DOMAIN comments.leading THEN comments.leading[pos] ELSE <<>>

get_trailing(pos) == IF pos \in DOMAIN comments.trailing THEN comments.trailing[pos] ELSE <<>>

validate_comments(cs) == \E i \in 1..Len(cs) : cs[i].kind = "text" /\ COMMENT_FILE_REGEX_is_match(cs[i].text)

\* the mutant: only the leading comments at the start of the program are scanned
should_ignore_file_LeadingLoOnly(prog) ==
    /\ comments.present
    /\ validate_comments(get_leading(prog.sp.lo))

should_ignore_file(prog) ==
    /\ comments.present
    /\ \/ validate_comments(get_leading(prog.sp.lo))
       \/ validate_comments(get_leading(prog.sp.hi))
       \/ validate_comments(get_trailing(prog.sp.lo))
       \/ validate_comments(get_trailing(prog.sp.hi))

---------------------------------------------------------------------------
(* Coverage map (istanbul_oxi_instrument::SourceCoverage) *)

EmptyMap == [i \in {} |-> 0]

LogEntry(op, id, idx) == [op |-> op, id |-> id, idx |-> idx]

SourceCoverage_new(path, report_logic) ==
    [path |-> path, report_logic |-> report_logic,
     statementMap |-> EmptyMap, fnMap |-> EmptyMap, branchMap |-> EmptyMap,
     s |-> EmptyMap, f |-> EmptyMap, b |-> EmptyMap,
     last |-> [s |-> 0, f |-> 0, b |-> 0],
     hash |-> <<>>, frozen |-> FALSE, log |-> <<>>]

\* each allocation returns the pair (map, id)
Alloc(c, id) == [cov |-> c, id |-> id]

new_statement(c, range) ==
    LET id == c.last.s
    IN  Alloc([c EXCEPT !.statementMap = (id :> range) @@ @,
                        !.s = (id :> 0) @@ @,
                        !.last.s = id + 1,
                        !.log = Append(@, LogEntry("s", id, 0))], id)

new_function(c, name, decl, loc) ==
    LET id == c.last.f
    IN  Alloc([c EXCEPT !.fnMap = (id :> [name |-> name, decl |-> decl, loc |-> loc,
                                          lineCount |-> loc.end.line - loc.start.line + 1]) @@ @,
                        !.f = (id :> 0) @@ @,
                        !.last.f = id + 1,
                        !.log = Append(@, LogEntry("f", id, 0))], id)

new_branch(c, type, loc, is_report_logic) ==
    LET id == c.last.b
    IN  Alloc([c EXCEPT !.branchMap = (id :> [type |-> type, loc |-> loc,
                                              locations |-> <<>>]) @@ @,
                        !.b = (id :> <<>>) @@ @,
                        !.last.b = id + 1,
                        !.log = Append(@, LogEntry("b", id, 0))], id)

add_branch_path(c, name, location) ==
    LET idx == Len(c.b[name])
    IN  Alloc([c EXCEPT !.branchMap[name].locations = Append(@, location),
                        !.b[name] = Append(@, 0),
                        !.log = Append(@, LogEntry("p", name, idx))], idx)

\* the content hash of freeze: a digest of (statementMap, fnMap, branchMap)
Digest(c) == << c.statementMap, c.fnMap, c.branchMap >>

freeze(c) == [c EXCEPT !.hash = <<Digest(c)>>, !.frozen = TRUE,
                       !.log = Append(@, LogEntry("freeze", 0, 0))]

\* serde_json::to_string(self.cov.as_ref()): the Istanbul record of the file
Serialize(c) ==
    [path |-> c.path, statementMap |-> c.statementMap, fnMap |-> c.fnMap,
     branchMap |-> c.branchMap, s |-> c.s, f |-> c.f, b |-> c.b, hash |-> c.hash]

---------------------------------------------------------------------------
(* Counter expressions *)

\* CoverageVisitor.var_name_ident / cov_fn_ident: Ident::new(var_name, DUMMY_SP)
CovFnIdent(name) == Ident(name, DUMMY_SP)

\* `F().<type>[id]`
CounterMember(type_ident, id, F) ==
    MemberComputed(MemberIdent(CallExpr(F, DUMMY_SP), type_ident), Num(id))

\* StmtVisitor::build_increase_expression (lib.rs), i = None: `F().s[id]++;`
build_increase_expression(type_ident, id, F) ==
    ExprStmt(UpdateExpr(CounterMember(type_ident, id, F)), DUMMY_SP)

\* instrument::create_increase_expression_expr: `F().<type>[id]++`, or with
\* idx = <<j>> the two-index form `F().<type>[id][j]++`
create_increase_expression_expr(type_ident, id, F, idx) ==
    IF idx = <<>>
    THEN UpdateExpr(CounterMember(type_ident, id, F))
    ELSE UpdateExpr(MemberComputed(CounterMember(type_ident, id, F), Num(idx[1])))

is_injected_counter_expr(expr, F) ==
    /\ expr.k = "Update"
    /\ expr.c[1].k = "Member"
    /\ expr.c[1].c[1].k = "Member"
    /\ expr.c[1].c[1].c[1].k = "Call"
    /\ expr.c[1].c[1].c[1].c[1].k = "Ident"
    /\ expr.c[1].c[1].c[1].c[1] = F

is_injected_counter_stmt(stmt, F) ==
    /\ stmt.k = "ExprStmt"
    /\ is_injected_counter_expr(stmt.c[1], F)

---------------------------------------------------------------------------
(* The StmtVisitor of lib.rs *)

\* the state of a StmtVisitor: the borrowed map and the counters to put before
\* the statement
SV(c, before) == [cov |-> c, before |-> before]

StmtVisitor_insert_counter(sv, current, increment_expr) ==
    [sv EXCEPT !.before = Append(@, increment_expr)]

\* the span the match of insert_statement_counter binds
stmt_span(stmt) == IF stmt.k = "FnDecl" THEN stmt.c[1].sp ELSE stmt.sp

StmtVisitor_insert_statement_counter(sv, stmt, F) ==
    LET stmt_hi_loc == lookup_char_pos(stmt_span(stmt).hi)
        stmt_lo_loc == lookup_char_pos(stmt_span(stmt).lo)
        stmt_range == Range_new(stmt_hi_loc.line, stmt_hi_loc.col,
                                stmt_lo_loc.line, stmt_lo_loc.col)
        a == new_statement(sv.cov, stmt_range)
        increment_expr == build_increase_expression("s", a.id, F)
    IN  StmtVisitor_insert_counter([sv EXCEPT !.cov = a.cov], stmt, increment_expr)

RECURSIVE StmtVisitor_visit(_, _, _)
RECURSIVE StmtVisitor_visit_children(_, _, _, _)

\* visit_mut_children_with(StmtVisitor): the children of node from the i-th on
StmtVisitor_visit_children(sv, node, i, F) ==
    IF i > Len(node.c) THEN sv
    ELSE StmtVisitor_visit_children(StmtVisitor_visit(sv, node.c[i], F), node, i + 1, F)

\* StmtVisitor::visit_mut_stmt for a Stmt, plain descent for any other node
StmtVisitor_visit(sv, node, F) ==
    LET after == StmtVisitor_visit_children(sv, node, 1, F)
    IN  IF node.k \in StmtKinds
        THEN StmtVisitor_insert_statement_counter(after, node, F)
        ELSE after

---------------------------------------------------------------------------
(* The CoverageVisitor of lib.rs *)

\* std DefaultHasher (SipHash with fixed keys) over the bytes of the name, rendered
\* as `cov_<decimal>`: a fixed function of the name, tabulated on the names of
\* the model
get_var_name_hash(name) ==
    CASE name = "a.js" -> "cov_1"
      [] name = "b.js" -> "cov_2"
      [] name = "unknown.js" -> "cov_3"
      [] name = "__coverage__" -> "cov_4"
      [] OTHER -> "cov_5"

is_instrumented_already == FALSE

\* the result of visiting: the rewritten node or list and the map
Visited(x, c) == [x |-> x, cov |-> c]

RECURSIVE CoverageVisitor_visit(_, _, _)
RECURSIVE CoverageVisitor_visit_each(_, _, _, _, _)
RECURSIVE CoverageVisitor_visit_mut_stmts(_, _, _)
RECURSIVE CoverageVisitor_stmts_loop(_, _, _, _, _)

\* visit every element of a list in order
CoverageVisitor_visit_each(list, i, acc, c, F) ==
    IF i > Len(list) THEN Visited(acc, c)
    ELSE LET r == CoverageVisitor_visit(list[i], c, F)
         IN  CoverageVisitor_visit_each(list, i + 1, Append(acc, r.x), r.cov, F)

\* the loop of visit_mut_stmts over the drained statements
CoverageVisitor_stmts_loop(stmts, i, new_stmts, c, F) ==
    IF i > Len(stmts) THEN Visited(new_stmts, c)
    ELSE LET stmt_visitor == StmtVisitor_visit(SV(c, <<>>), stmts[i], F)
         IN  CoverageVisitor_stmts_loop(stmts, i + 1,
                 new_stmts \o stmt_visitor.before \o <<stmts[i]>>, stmt_visitor.cov, F)

CoverageVisitor_visit_mut_stmts(stmts, c, F) ==
    LET children == CoverageVisitor_visit_each(stmts, 1, <<>>, c, F)
    IN  CoverageVisitor_stmts_loop(children.x, 1, <<>>, children.cov, F)

\* visit_mut_children_with(CoverageVisitor): a Vec<Stmt> goes to visit_mut_stmts,
\* every other child list is visited element by element
CoverageVisitor_visit(node, c, F) ==
    LET r == IF node.k \in StmtListKinds
             THEN CoverageVisitor_visit_mut_stmts(node.c, c, F)
             ELSE CoverageVisitor_visit_each(node.c, 1, <<>>, c, F)
    IN  Visited([node EXCEPT !.c = r.x], r.cov)

\* template::create_coverage_fn_decl: the declaration of the coverage function
create_coverage_fn_decl(name) == Nd("CovFnDecl", DUMMY_SP, name, 0, <<>>)

\* `F();`
CoverageFnCall(name) == ExprStmt(CallExpr(CovFnIdent(name), DUMMY_SP), DUMMY_SP)

\* insert(0, coverage_template); insert(1, m)
Prepend(items, name) == <<create_coverage_fn_decl(name), CoverageFnCall(name)>> \o items

\* the items loop, freeze and the preamble; .tmpl is the map the template read
CoverageVisitor_visit_mut_module_items(items, c, name) ==
    IF is_instrumented_already THEN [x |-> items, cov |-> c, tmpl |-> <<>>]
    ELSE LET r == CoverageVisitor_visit_each(items, 1, <<>>, c, CovFnIdent(name))
             frozen == freeze(r.cov)
         IN  [x |-> Prepend(r.x, name), cov |-> frozen, tmpl |-> <<Serialize(frozen)>>]

---------------------------------------------------------------------------
(* Inputs of the pass *)

\* decoded JSON values
JNull == [t |-> "null", s |-> "", b |-> FALSE]

JStr(x) == [t |-> "str", s |-> x, b |-> FALSE]

JBool(x) == [t |-> "bool", s |-> "", b |-> x]

\* serde_json Value::as_str / as_bool with unwrap_or
as_str_or(val, default) == IF val.t = "str" THEN val.s ELSE default

as_bool_or(val, default) == IF val.t = "bool" THEN val.b ELSE default

\* transform_context: ok is whether serde_json::from_str succeeds
Contexts ==
    { [ok |-> TRUE, filename |-> JStr("a.js")],
      [ok |-> TRUE, filename |-> JStr("b.js")],
      [ok |-> TRUE, filename |-> JNull],
      [ok |-> FALSE, filename |-> JNull] }

\* plugin_config: ok is whether serde_json::from_str succeeds
Configs ==
    { [ok |-> TRUE, coverageVariable |-> JNull, compact |-> JNull, reportLogic |-> JNull,
       ignoreClassMethods |-> <<>>],
      [ok |-> TRUE, coverageVariable |-> JStr("__cov2__"), compact |-> JBool(TRUE),
       reportLogic |-> JBool(TRUE), ignoreClassMethods |-> <<"m">>],
      [ok |-> TRUE, coverageVariable |-> JBool(TRUE), compact |-> JStr("yes"),
       reportLogic |-> JStr("yes"), ignoreClassMethods |-> <<>>],
      [ok |-> FALSE, coverageVariable |-> JNull, compact |-> JNull, reportLogic |-> JNull,
       ignoreClassMethods |-> <<>>] }

InstrumentOptions(cfg) ==
    [coverage_variable |-> as_str_or(cfg.coverageVariable, "__coverage__"),
     compact |-> as_bool_or(cfg.compact, FALSE),
     report_logic |-> as_bool_or(cfg.reportLogic, FALSE)]

Filename(ctx) == as_str_or(ctx.filename, "unknown.js")

\* comment texts
TextIgnoreFile == <<"ws", "istanbul", "ws", "ignore", "ws", "file", "ws">>

TextIgnoreFileTight == <<"istanbul", "ws", "ws", "ignore", "ws", "file">>

TextIgnoreFilename == <<"istanbul", "ws", "ignore", "ws", "file", "w">>

TextNotAnchored == <<"nw", "ws", "istanbul", "ws", "ignore", "ws", "file">>

TextIgnoreNext == <<"ws", "istanbul", "ws", "ignore", "ws", "next", "ws">>

TextIgnoreIf == <<"ws", "istanbul", "ws", "ignore", "ws", "if", "ws">>

TextIgnoreElse == <<"istanbul", "ws", "ignore", "ws", "else">>

TextPlain == <<"w", "ws", "w">>

FileTexts == {TextIgnoreFile, TextIgnoreFileTight, TextIgnoreFilename, TextNotAnchored,
              TextIgnoreNext}

TextComment(t) == [kind |-> "text", text |-> t, data |-> <<>>]

NoComments(present) == [present |-> present, leading |-> EmptyMap, trailing |-> EmptyMap]

\* a store holding one comment
OneComment(where, pos, t) ==
    IF where = "leading"
    THEN [present |-> TRUE, leading |-> (pos :> <<TextComment(t)>>), trailing |-> EmptyMap]
    ELSE [present |-> TRUE, leading |-> EmptyMap, trailing |-> (pos :> <<TextComment(t)>>)]

\* the span of every input program
ProgramSpan == Sp(1, 30)

\* a position inside the program that is neither end of its span
InnerPos == ProgramSpan.lo + 2

\* `name();` at lo
CallStmt(name, lo) ==
    ExprStmt(CallExpr(Ident(name, Sp(lo, lo + 1)), Sp(lo, lo + 3)), Sp(lo, lo + 4))

\* `function a() { return 1; }` at 1..26
FnDeclA ==
    FnDecl("a", Function(<<FnBody(<<ReturnStmt(Nd("Num", Sp(22, 23), "", 1, <<>>),
                                               Sp(15, 24))>>, Sp(13, 26))>>, Sp(1, 26)),
           Sp(10, 11))

\* the bodies of the input programs
Bodies ==
    { <<>>,
      <<CallStmt("foo", 1)>>,
      <<CallStmt("foo", 1), CallStmt("bar", 9)>>,
      <<BlockStmt(<<CallStmt("foo", 3)>>, Sp(1, 9))>>,
      <<FnDeclA>> }

Programs == { Module(b, ProgramSpan) : b \in Bodies } \cup { Script(b, ProgramSpan) : b \in Bodies }

CommentStores ==
    { NoComments(TRUE), NoComments(FALSE) }
    \cup { OneComment(w, pos, t) : w \in {"leading", "trailing"},
                                   pos \in {ProgramSpan.lo, ProgramSpan.hi},
                                   t \in FileTexts }
    \cup { OneComment("leading", InnerPos, TextIgnoreFile) }

NoRun == [valid |-> FALSE]

---------------------------------------------------------------------------
(* The pass of lib.rs *)

Idle == SourceCoverage_new("", FALSE)

Init ==
    /\ pc = "start"
    /\ context \in Contexts
    /\ config \in Configs
    /\ \E p \in Programs, cs \in CommentStores :
          /\ input = [program |-> p, comments |-> cs]
          /\ program = p
          /\ comments = cs
    /\ file_path = ""
    /\ var_name = ""
    /\ opts = InstrumentOptions([ok |-> TRUE, coverageVariable |-> JNull,
                                 compact |-> JNull, reportLogic |-> JNull,
                                 ignoreClassMethods |-> <<>>])
    /\ cov = Idle
    /\ tmpl_map = <<>>
    /\ nodes = <<>>
    /\ run = 1
    /\ prev = NoRun

\* the mutant: the identifier is hashed from the coverage variable
CoverageVisitor_new_var_name_FromOption(filename, options) ==
    get_var_name_hash(options.coverage_variable)

\* CoverageVisitor::new: var_name = get_var_name_hash(var_name)
CoverageVisitor_new_var_name(filename, options) == get_var_name_hash(filename)

\* process: either from_str(...).expect(...) panics
ProcessPanic ==
    /\ pc = "start"
    /\ ~context.ok \/ ~config.ok
    /\ pc' = "panicked"
    /\ UNCHANGED << context, config, comments, input, program, file_path, var_name,
                    opts, cov, tmpl_map, nodes, run, prev >>

\* process: decode the inputs and construct the visitor
Process ==
    /\ pc = "start"
    /\ context.ok /\ config.ok
    /\ LET filename == Filename(context)
           instrument_options == InstrumentOptions(config)
       IN  /\ opts' = instrument_options
           /\ file_path' = filename
           /\ var_name' = CoverageVisitor_new_var_name(filename, instrument_options)
           /\ cov' = SourceCoverage_new(filename, instrument_options.report_logic)
    /\ pc' = "visit_program"
    /\ UNCHANGED << context, config, comments, input, program, tmpl_map, nodes, run, prev >>

\* visit_mut_program: the two early returns
VisitMutProgramReturn ==
    /\ pc = "visit_program"
    /\ should_ignore_file(program) \/ is_instrumented_already
    /\ pc' = "done"
    /\ UNCHANGED << context, config, comments, input, program, file_path, var_name,
                    opts, cov, tmpl_map, nodes, run, prev >>

\* visit_mut_program: program.visit_mut_children_with(self), a Module
VisitMutModule ==
    /\ pc = "visit_program"
    /\ ~should_ignore_file(program) /\ ~is_instrumented_already
    /\ program.k = "Module"
    /\ LET r == CoverageVisitor_visit_mut_module_items(program.c, cov, var_name)
       IN  /\ program' = [program EXCEPT !.c = r.x]
           /\ cov' = r.cov
           /\ tmpl_map' = r.tmpl
    /\ pc' = "children_visited"
    /\ UNCHANGED << context, config, comments, input, file_path, var_name, opts,
                    nodes, run, prev >>

\* visit_mut_program: program.visit_mut_children_with(self), a Script
VisitMutScript ==
    /\ pc = "visit_program"
    /\ ~should_ignore_file(program) /\ ~is_instrumented_already
    /\ program.k = "Script"
    /\ LET r == CoverageVisitor_visit(program, cov, CovFnIdent(var_name))
       IN  /\ program' = r.x
           /\ cov' = r.cov
    /\ pc' = "children_visited"
    /\ UNCHANGED << context, config, comments, input, file_path, var_name, opts,
                    tmpl_map, nodes, run, prev >>

CoverageComment(c) ==
    [kind |-> "coverage", text |-> <<"__coverage_data_json_comment__::">>,
     data |-> <<Serialize(c)>>]

\* Comments::add_trailing of Option<&PluginCommentsProxy>: nothing without a store
add_trailing(store, pos, comment) ==
    IF ~store.present THEN store
    ELSE [store EXCEPT !.trailing =
            (pos :> ((IF pos \in DOMAIN @ THEN @[pos] ELSE <<>>) \o <<comment>>)) @@ @]

\* visit_mut_program: serialize the map into a trailing comment at span.hi
AddTrailingComment ==
    /\ pc = "children_visited"
    /\ comments' = add_trailing(comments, program.sp.hi, CoverageComment(cov))
    /\ pc' = "done"
    /\ UNCHANGED << context, config, input, program, file_path, var_name, opts, cov,
                    tmpl_map, nodes, run, prev >>

RunSummary ==
    [valid |-> TRUE, input |-> input, config |-> config, var_name |-> var_name,
     program |-> program, comments |-> comments, cov |-> cov, tmpl_map |-> tmpl_map]

\* the host runs the pass again for the same file: on the same input or on the
\* output of the finished run, with the same or another plugin configuration
RunAgain ==
    /\ pc = "done"
    /\ run < MaxRuns
    /\ prev' = RunSummary
    /\ run' = run + 1
    /\ \/ input' = input
       \/ input' = [program |-> program, comments |-> comments]
    /\ program' = input'.program
    /\ comments' = input'.comments
    /\ config' \in {c \in Configs : c.ok}
    /\ pc' = "start"
    /\ file_path' = ""
    /\ var_name' = ""
    /\ cov' = Idle
    /\ tmpl_map' = <<>>
    /\ UNCHANGED << context, opts, nodes >>

Next ==
    \/ ProcessPanic
    \/ Process
    \/ VisitMutProgramReturn
    \/ VisitMutModule
    \/ VisitMutScript
    \/ AddTrailingComment
    \/ RunAgain

Spec == Init /\ [][Next]_vars

---------------------------------------------------------------------------
(* The visitor generated by the macros of visitor_macros.rs *)

\* utils::hint_comments::lookup_hint_comments: the hint word of a leading comment
\* of the span, "none" when there is none
lookup_hint_comments(span) ==
    LET cs == get_leading(span.lo)
        hit(word) == \E i \in 1..Len(cs) :
                        cs[i].kind = "text" /\ IgnoreRegexMatch(cs[i].text, word)
    IN  IF span = DUMMY_SP \/ ~comments.present THEN "none"
        ELSE IF hit("next") THEN "next"
        ELSE IF hit("if") THEN "if"
        ELSE IF hit("else") THEN "else"
        ELSE "none"

\* utils::hint_comments::should_ignore: the IgnoreScope of the hint
should_ignore(span) == lookup_hint_comments(span)

\* the state of a visitor: the borrowed map, its NodePath, the counters marked
\* for insertion before the current statement, its ignore scope, for a
\* LogicalExprVisitor the branch of the chain, and whether a rule has panicked
Visitor(c, path, before, ignore, branch) ==
    [cov |-> c, nodes |-> path, before |-> before, ignore |-> ignore, branch |-> branch,
     panic |-> FALSE]

\* StmtVisitor::new(source_map, comments, cov, instrument_options, nodes, should_ignore)
StmtVisitor_new(c, path, ignore) == Visitor(c, path, <<>>, ignore, <<>>)

\* LogicalExprVisitor::new(..., nodes, should_ignore, branch)
LogicalExprVisitor_new(c, path, ignore, branch) == Visitor(c, path, <<>>, ignore, <<branch>>)

\* the result of a rule: the visitor state and the rewritten node or list
R(vs, x) == [vs |-> vs, x |-> x]

Push(vs, kind) == [vs EXCEPT !.nodes = Append(@, kind)]

Pop(vs) == [vs EXCEPT !.nodes = IF Len(@) = 0 THEN @ ELSE SubSeq(@, 1, Len(@) - 1)]

\* on_enter: push the node kind; an enclosing `ignore next` stays in force,
\* otherwise the scope is the hint of the node
on_enter(vs, node, kind) ==
    LET ignore_current == IF vs.ignore = "next" THEN "next" ELSE should_ignore(node.sp)
    IN  [vs |-> [Push(vs, kind) EXCEPT !.ignore = ignore_current],
         old |-> vs.ignore, ignore_current |-> ignore_current]

on_exit(vs, old) == [Pop(vs) EXCEPT !.ignore = old]

\* Op applied to the value of e, which is evaluated once before Op is
Let(e, Op(_)) == CHOOSE y \in { Op(r) : r \in {e} } : TRUE

\* the mutant: the counter names the slot after the allocated statement
create_stmt_increase_counter_expr_NextId(vs, span, idx) ==
    Let(new_statement(vs.cov, get_range_from_span(span)), LAMBDA a :
        R([vs EXCEPT !.cov = a.cov],
          create_increase_expression_expr("s", a.id + 1, CovFnIdent(var_name), idx)))

create_stmt_increase_counter_expr(vs, span, idx) ==
    Let(new_statement(vs.cov, get_range_from_span(span)), LAMBDA a :
        R([vs EXCEPT !.cov = a.cov],
          create_increase_expression_expr("s", a.id, CovFnIdent(var_name), idx)))

\* the mutant: the statement is allocated and its counter is not kept
mark_prepend_stmt_counter_AllocOnly(vs, span) ==
    Let(create_stmt_increase_counter_expr(vs, span, <<>>), LAMBDA r : r.vs)

mark_prepend_stmt_counter(vs, span) ==
    Let(create_stmt_increase_counter_expr(vs, span, <<>>), LAMBDA r :
        [r.vs EXCEPT !.before = Append(@, ExprStmt(r.x, DUMMY_SP))])

\* replace_expr_with_counter with the get_counter of replace_expr_with_branch_counter
replace_expr_with_branch_counter(vs, expr, branch) ==
    IF HasSpan(expr)
    THEN Let(add_branch_path(vs.cov, branch, get_range_from_span(expr.sp)), LAMBDA a :
             R([vs EXCEPT !.cov = a.cov],
               ParenExpr(SeqExpr(<<create_increase_expression_expr("b", branch,
                                       CovFnIdent(var_name), <<a.id>>),
                                   expr>>, DUMMY_SP), DUMMY_SP)))
    ELSE R(vs, expr)

\* the mutant: a function without a body is left as it is and the pass goes on
visit_mut_fn_SkipBodyless(vs, ident_sp, name, function) ==
    Let(new_function(vs.cov, name, get_range_from_span(ident_sp),
                     get_range_from_span(IF Len(function.c) > 0 THEN function.c[1].sp
                                         ELSE function.sp)), LAMBDA a :
        IF Len(function.c) > 0
        THEN R([vs EXCEPT !.cov = a.cov],
               [function EXCEPT !.c = << [function.c[1] EXCEPT
                   !.c = <<ExprStmt(create_increase_expression_expr("f", a.id,
                                        CovFnIdent(var_name), <<>>), DUMMY_SP)>> \o @] >>])
        ELSE R([vs EXCEPT !.cov = a.cov, !.panic = FALSE], function))

\* visit_mut_fn: allocate the function and prepend `f[index]++` to its body
visit_mut_fn(vs, ident_sp, name, function) ==
    Let(new_function(vs.cov, name, get_range_from_span(ident_sp),
                     get_range_from_span(IF Len(function.c) > 0 THEN function.c[1].sp
                                         ELSE function.sp)), LAMBDA a :
        IF Len(function.c) > 0
        THEN R([vs EXCEPT !.cov = a.cov],
               [function EXCEPT !.c = << [function.c[1] EXCEPT
                   !.c = <<ExprStmt(create_increase_expression_expr("f", a.id,
                                        CovFnIdent(var_name), <<>>), DUMMY_SP)>> \o @] >>])
        ELSE R([vs EXCEPT !.cov = a.cov, !.panic = TRUE], function))

\* the mutant: the counter follows the expression in the sequence
replace_expr_with_stmt_counter_CounterLast(vs, expr) ==
    IF HasSpan(expr)
    THEN Let(new_statement(vs.cov, get_range_from_span(expr.sp)), LAMBDA a :
             R([vs EXCEPT !.cov = a.cov],
               ParenExpr(SeqExpr(<<expr,
                                   create_increase_expression_expr("s", a.id,
                                       CovFnIdent(var_name), <<>>)>>, DUMMY_SP), DUMMY_SP)))
    ELSE R(vs, expr)

\* replace_expr_with_counter with the get_counter of replace_expr_with_stmt_counter
replace_expr_with_stmt_counter(vs, expr) ==
    IF HasSpan(expr)
    THEN Let(new_statement(vs.cov, get_range_from_span(expr.sp)), LAMBDA a :
             R([vs EXCEPT !.cov = a.cov],
               ParenExpr(SeqExpr(<<create_increase_expression_expr("s", a.id,
                                       CovFnIdent(var_name), <<>>),
                                   expr>>, DUMMY_SP), DUMMY_SP)))
    ELSE R(vs, expr)

RECURSIVE HasKind(_, _)
\* a finder: a node of one of the kinds in the tree
HasKind(node, kinds) ==
    IF node.k \in kinds THEN TRUE
    ELSE \E i \in 1..Len(node.c) : HasKind(node.c[i], kinds)

\* the variants of swc's Expr enum that the model builds
ExprKinds ==
    {"Ident", "Num", "Str", "Call", "Member", "Update", "Bin", "Paren", "Seq", "Arrow",
     "FnExpr"}

\* visitors::finders::BlockStmtFinder
BlockStmtFinder(expr) == HasKind(expr, {"Block", "FnBody"})

\* visitors::finders::StmtFinder
StmtFinder(expr) == HasKind(expr, StmtKinds)

\* visitors::finders::HoistingFinder: a function, arrow or class expression
HoistingFinder(expr) == HasKind(expr, {"FnExpr", "Arrow", "ClassExpr"})

\* visitors::finders::ExprFinder
ExprFinder(expr) == HasKind(expr, ExprKinds)

\* cover_statement: the statement counter of an initializer is prepended to the
\* enclosing statement or wrapped around the initializer.  self.nodes.get(len - 3)
\* and get(len - 4) are nodes[len - 2] and nodes[len - 3] here; a path shorter
\* than the index makes the subtraction overflow
cover_statement(vs, expr) ==
    IF ~HasSpan(expr) THEN R(vs, expr)
    ELSE IF BlockStmtFinder(expr) THEN R(mark_prepend_stmt_counter(vs, expr.sp), expr)
    ELSE Let(IF StmtFinder(expr) THEN mark_prepend_stmt_counter(vs, expr.sp) ELSE vs,
             LAMBDA vs1 :
        IF HoistingFinder(expr) /\ vs1.nodes[Len(vs1.nodes)] = "VarDeclarator"
        THEN IF Len(vs1.nodes) < 4 THEN R([vs1 EXCEPT !.panic = TRUE], expr)
             ELSE IF vs1.nodes[Len(vs1.nodes) - 3] \in {"BlockStmt", "Program"}
             THEN R(mark_prepend_stmt_counter(vs1, expr.sp), expr)
             ELSE R(vs1, expr)
        ELSE IF ExprFinder(expr) THEN replace_expr_with_stmt_counter(vs1, expr)
        ELSE R(vs1, expr))

RECURSIVE HasLogicalExpr(_)
\* visitors::finders::LogicalExprLeafFinder: a logical expression in the tree
HasLogicalExpr(node) ==
    IF node.k = "Bin" /\ node.v \in LogicalOps THEN TRUE
    ELSE \E i \in 1..Len(node.c) : HasLogicalExpr(node.c[i])

\* the mutant: the hint never skips the consequent
skip_cons_Never(ignore_current) == FALSE

\* `ignore if`: the consequent gets no path and no counter
skip_cons(ignore_current) == ignore_current = "if"

\* `ignore else`: the alternate gets no path and no counter
skip_alt(ignore_current) == ignore_current = "else"

RECURSIVE Visit(_, _)
RECURSIVE VisitChildren(_, _)
RECURSIVE VisitEach(_, _, _, _)
RECURSIVE insert_stmts_counter(_, _)
RECURSIVE insert_stmts_counter_loop(_, _, _, _)
RECURSIVE visit_mut_stmts(_, _)
RECURSIVE visit_mut_block_stmt(_, _)
RECURSIVE visit_mut_fn_decl(_, _)
RECURSIVE visit_mut_expr_stmt(_, _)
RECURSIVE visit_mut_return_stmt(_, _)
RECURSIVE wrap_with_counter(_, _, _, _, _)
RECURSIVE visit_mut_var_decl(_, _)
RECURSIVE visit_mut_var_declarator(_, _)
RECURSIVE visit_mut_class_decl(_, _)
RECURSIVE visit_mut_class_method(_, _)
RECURSIVE visit_mut_fn_expr(_, _)
RECURSIVE visit_mut_arrow_expr(_, _)
RECURSIVE visit_mut_labeled_stmt(_, _)
RECURSIVE visit_mut_continue_stmt(_, _)
RECURSIVE visit_mut_if_stmt(_, _)
RECURSIVE wrap_bin_expr_with_branch_counter(_, _, _)
RECURSIVE visit_mut_bin_expr(_, _)
RECURSIVE LogicalExprVisitor_visit_mut_bin_expr(_, _)

\* visit the elements of a list in order
VisitEach(vs, list, i, acc) ==
    IF i > Len(list) THEN R(vs, acc)
    ELSE Let(Visit(vs, list[i]), LAMBDA r :
             VisitEach(r.vs, list, i + 1, Append(acc, r.x)))

\* visit_mut_children_with: a Vec<Stmt> goes to visit_mut_stmts, every other
\* child list is visited element by element
VisitChildren(vs, node) ==
    Let(IF node.k \in StmtListKinds
        THEN visit_mut_stmts(vs, node.c)
        ELSE VisitEach(vs, node.c, 1, <<>>), LAMBDA r :
        R(r.vs, [node EXCEPT !.c = r.x]))

\* visit_mut_with: the handler of the node kind, plain descent without one
Visit(vs, node) ==
    CASE node.k \in {"Block", "FnBody"} -> visit_mut_block_stmt(vs, node)
      [] node.k = "FnDecl" -> visit_mut_fn_decl(vs, node)
      [] node.k = "ExprStmt" -> visit_mut_expr_stmt(vs, node)
      [] node.k = "Return" -> visit_mut_return_stmt(vs, node)
      [] node.k = "VarDecl" -> visit_mut_var_decl(vs, node)
      [] node.k = "VarDeclarator" -> visit_mut_var_declarator(vs, node)
      [] node.k = "ClassDecl" -> visit_mut_class_decl(vs, node)
      [] node.k = "ClassMethod" -> visit_mut_class_method(vs, node)
      [] node.k = "FnExpr" -> visit_mut_fn_expr(vs, node)
      [] node.k = "Arrow" -> visit_mut_arrow_expr(vs, node)
      [] node.k = "Labeled" -> visit_mut_labeled_stmt(vs, node)
      [] node.k = "Continue" -> visit_mut_continue_stmt(vs, node)
      [] node.k = "If" -> visit_mut_if_stmt(vs, node)
      [] node.k = "Bin" -> IF vs.branch = <<>> THEN visit_mut_bin_expr(vs, node)
                           ELSE LogicalExprVisitor_visit_mut_bin_expr(vs, node)
      [] OTHER -> VisitChildren(vs, node)

insert_stmts_counter_loop(vs, stmts, i, new_stmts) ==
    IF i > Len(stmts) THEN R(vs, new_stmts)
    ELSE IF is_injected_counter_stmt(stmts[i], CovFnIdent(var_name))
    THEN insert_stmts_counter_loop(vs, stmts, i + 1, Append(new_stmts, stmts[i]))
    ELSE Let(Visit(StmtVisitor_new(vs.cov, vs.nodes, should_ignore(stmt_span(stmts[i]))),
                   stmts[i]), LAMBDA r :
             insert_stmts_counter_loop([vs EXCEPT !.cov = r.vs.cov,
                                                  !.panic = @ \/ r.vs.panic], stmts, i + 1,
                                       new_stmts \o r.vs.before \o <<r.x>>))

insert_stmts_counter(vs, stmts) == insert_stmts_counter_loop(vs, stmts, 1, <<>>)

visit_mut_stmts(vs, stmts) ==
    Let(insert_stmts_counter(Push(vs, "Stmts"), stmts), LAMBDA r : R(Pop(r.vs), r.x))

visit_mut_block_stmt(vs, block_stmt) ==
    Let(VisitChildren(Push(vs, "BlockStmt"), block_stmt), LAMBDA r : R(Pop(r.vs), r.x))

visit_mut_fn_decl(vs, fn_decl) ==
    Let(visit_mut_fn(Push(vs, "FnDecl"), fn_decl.sp, fn_decl.v, fn_decl.c[1]), LAMBDA f :
    Let(VisitChildren(f.vs, [fn_decl EXCEPT !.c = <<f.x>>]), LAMBDA r :
        R(Pop(r.vs), r.x)))

visit_mut_expr_stmt(vs, expr_stmt) ==
    Let(on_enter(vs, expr_stmt, "ExprStmt"), LAMBDA e :
    Let(VisitChildren(
            IF e.ignore_current # "next"
               /\ ~is_injected_counter_expr(expr_stmt.c[1], CovFnIdent(var_name))
            THEN mark_prepend_stmt_counter(e.vs, expr_stmt.sp)
            ELSE e.vs,
            expr_stmt), LAMBDA r :
        R(on_exit(r.vs, e.old), r.x)))

visit_mut_return_stmt(vs, return_stmt) ==
    Let(VisitChildren(mark_prepend_stmt_counter(Push(vs, "ReturnStmt"), return_stmt.sp),
                      return_stmt), LAMBDA r :
        R(Pop(r.vs), r.x))

visit_mut_var_decl(vs, var_decl) ==
    Let(on_enter(vs, var_decl, "VarDecl"), LAMBDA e :
    Let(VisitChildren(e.vs, var_decl), LAMBDA r :
        R(on_exit(r.vs, e.old), r.x)))

visit_mut_var_declarator(vs, declarator) ==
    Let(on_enter(vs, declarator, "VarDeclarator"), LAMBDA e :
    IF e.ignore_current = "next" THEN R(on_exit(e.vs, e.old), declarator)
    ELSE
    Let(IF Len(declarator.c) = 1
        THEN Let(cover_statement(e.vs, declarator.c[1]), LAMBDA init :
                 R(init.vs, [declarator EXCEPT !.c = <<init.x>>]))
        ELSE R(e.vs, declarator), LAMBDA covered :
    Let(VisitChildren(covered.vs, covered.x), LAMBDA r :
        R(on_exit(r.vs, e.old), r.x))))

visit_mut_class_decl(vs, class_decl) ==
    Let(on_enter(vs, class_decl, "ClassDecl"), LAMBDA e :
    IF e.ignore_current = "next" THEN R(on_exit(e.vs, e.old), class_decl)
    ELSE Let(VisitChildren(e.vs, class_decl), LAMBDA r :
             R(on_exit(r.vs, e.old), r.x)))

\* visit_mut_class_method: only a method whose key is PropName::Ident is covered
visit_mut_class_method(vs, class_method) ==
    Let(on_enter(vs, class_method, "ClassMethod"), LAMBDA e :
    IF e.ignore_current = "next" \/ class_method.c[1].k # "Ident"
    THEN R(on_exit(e.vs, e.old), class_method)
    ELSE
    Let(visit_mut_fn(e.vs, class_method.c[1].sp, class_method.c[1].v, class_method.c[2]),
        LAMBDA f :
    Let(VisitChildren(f.vs, [class_method EXCEPT !.c = <<class_method.c[1], f.x>>]),
        LAMBDA r :
        R(on_exit(r.vs, e.old), r.x))))

\* visit_mut_fn_expr: without an ident the function span and no name are recorded
visit_mut_fn_expr(vs, fn_expr) ==
    Let(fn_expr.c[Len(fn_expr.c)], LAMBDA function :
    Let(visit_mut_fn(Push(vs, "FnExpr"),
                     IF Len(fn_expr.c) = 1 THEN function.sp ELSE fn_expr.c[1].sp,
                     IF Len(fn_expr.c) = 1 THEN "" ELSE fn_expr.c[1].v,
                     function), LAMBDA f :
    Let(VisitChildren(f.vs, [fn_expr EXCEPT !.c[Len(fn_expr.c)] = f.x]), LAMBDA r :
        R(Pop(r.vs), r.x))))

\* the mutant: the synthesized return statement does not keep the span of the expression
visit_mut_arrow_expr_DummyReturnSpan(vs, arrow_expr) ==
    Let(on_enter(vs, arrow_expr, "ArrowExpr"), LAMBDA e :
    Let(arrow_expr.c[1], LAMBDA body :
    IF e.ignore_current = "next" THEN R(on_exit(e.vs, e.old), arrow_expr)
    ELSE IF body.k = "FnBody"
    THEN Let(new_function(e.vs.cov, "", get_range_from_span(arrow_expr.sp),
                          get_range_from_span(body.sp)), LAMBDA a :
         Let(insert_stmts_counter([e.vs EXCEPT !.cov = a.cov], body.c), LAMBDA r :
             R(on_exit(r.vs, e.old),
               [arrow_expr EXCEPT !.c = << [body EXCEPT !.c =
                   <<ExprStmt(create_increase_expression_expr("f", a.id,
                                  CovFnIdent(var_name), <<>>), DUMMY_SP)>> \o r.x] >>])))
    ELSE IF ~HasSpan(body) THEN R(on_exit(e.vs, e.old), arrow_expr)
    ELSE Let(new_function(e.vs.cov, "", get_range_from_span(arrow_expr.sp),
                          get_range_from_span(body.sp)), LAMBDA a :
         Let(insert_stmts_counter([e.vs EXCEPT !.cov = a.cov],
                 <<ExprStmt(create_increase_expression_expr("f", a.id,
                                CovFnIdent(var_name), <<>>), DUMMY_SP),
                   ReturnStmt(body, DUMMY_SP)>>), LAMBDA r :
             R(on_exit(r.vs, e.old),
               [arrow_expr EXCEPT !.c = <<FnBody(r.x, DUMMY_SP)>>])))))

visit_mut_arrow_expr(vs, arrow_expr) ==
    Let(on_enter(vs, arrow_expr, "ArrowExpr"), LAMBDA e :
    Let(arrow_expr.c[1], LAMBDA body :
    IF e.ignore_current = "next" THEN R(on_exit(e.vs, e.old), arrow_expr)
    ELSE IF body.k = "FnBody"
    THEN Let(new_function(e.vs.cov, "", get_range_from_span(arrow_expr.sp),
                          get_range_from_span(body.sp)), LAMBDA a :
         Let(insert_stmts_counter([e.vs EXCEPT !.cov = a.cov], body.c), LAMBDA r :
             R(on_exit(r.vs, e.old),
               [arrow_expr EXCEPT !.c = << [body EXCEPT !.c =
                   <<ExprStmt(create_increase_expression_expr("f", a.id,
                                  CovFnIdent(var_name), <<>>), DUMMY_SP)>> \o r.x] >>])))
    ELSE IF ~HasSpan(body) THEN R(on_exit(e.vs, e.old), arrow_expr)
    ELSE Let(new_function(e.vs.cov, "", get_range_from_span(arrow_expr.sp),
                          get_range_from_span(body.sp)), LAMBDA a :
         Let(insert_stmts_counter([e.vs EXCEPT !.cov = a.cov],
                 <<ExprStmt(create_increase_expression_expr("f", a.id,
                                CovFnIdent(var_name), <<>>), DUMMY_SP),
                   ReturnStmt(body, body.sp)>>), LAMBDA r :
             R(on_exit(r.vs, e.old),
               [arrow_expr EXCEPT !.c = <<FnBody(r.x, DUMMY_SP)>>])))))

visit_mut_labeled_stmt(vs, labeled_stmt) ==
    Let(on_enter(vs, labeled_stmt, "LabeledStmt"), LAMBDA e :
    Let(VisitChildren(IF e.ignore_current # "next"
                      THEN mark_prepend_stmt_counter(e.vs, labeled_stmt.sp) ELSE e.vs,
                      labeled_stmt), LAMBDA r :
        R(on_exit(r.vs, e.old), r.x)))

visit_mut_continue_stmt(vs, continue_stmt) ==
    Let(on_enter(vs, continue_stmt, "ContinueStmt"), LAMBDA e :
    Let(VisitChildren(IF e.ignore_current # "next"
                      THEN mark_prepend_stmt_counter(e.vs, continue_stmt.sp) ELSE e.vs,
                      continue_stmt), LAMBDA r :
        R(on_exit(r.vs, e.old), r.x)))

\* the closure wrap_with_counter of visit_mut_if_stmt
wrap_with_counter(vs, stmt, branch, range, ignore_current) ==
    Let(add_branch_path(vs.cov, branch, range), LAMBDA a :
    Let(ExprStmt(create_increase_expression_expr("b", branch, CovFnIdent(var_name),
                                                 <<a.id>>), DUMMY_SP), LAMBDA expr :
        IF stmt.k = "Block"
        THEN Let(insert_stmts_counter([vs EXCEPT !.cov = a.cov], stmt.c), LAMBDA r :
                 R(r.vs, [stmt EXCEPT !.c = <<expr>> \o r.x]))
        ELSE Let(Visit(StmtVisitor_new(a.cov, vs.nodes, ignore_current), stmt), LAMBDA r :
                 R([vs EXCEPT !.cov = r.vs.cov, !.panic = @ \/ r.vs.panic],
                   BlockStmt(<<expr>> \o r.vs.before \o <<r.x>>, DUMMY_SP)))))

\* the mutant: the return after a synthesized alternate skips on_exit
visit_mut_if_stmt_NoExitAfterSynthesizedAlt(vs, if_stmt) ==
    Let(on_enter(vs, if_stmt, "IfStmt"), LAMBDA e :
    IF e.ignore_current = "next" THEN R(on_exit(e.vs, e.old), if_stmt)
    ELSE
    Let(mark_prepend_stmt_counter(e.vs, if_stmt.sp), LAMBDA marked :
    Let(get_range_from_span(if_stmt.sp), LAMBDA range :
    Let(new_branch(marked.cov, "If", range, FALSE), LAMBDA a :
    Let(IF skip_cons(e.ignore_current)
        THEN R([marked EXCEPT !.cov = a.cov], if_stmt.c[2])
        ELSE wrap_with_counter([marked EXCEPT !.cov = a.cov], if_stmt.c[2], a.id, range,
                               e.ignore_current), LAMBDA cons :
    Let(IF skip_alt(e.ignore_current)
        THEN R(cons.vs, IF Len(if_stmt.c) = 3 THEN if_stmt.c[3] ELSE BlockStmt(<<>>, DUMMY_SP))
        ELSE wrap_with_counter(cons.vs,
                               IF Len(if_stmt.c) = 3 THEN if_stmt.c[3]
                               ELSE BlockStmt(<<>>, DUMMY_SP),
                               a.id, range, e.ignore_current), LAMBDA alt :
    Let(Visit(alt.vs, if_stmt.c[1]), LAMBDA test :
        R(IF Len(if_stmt.c) = 2 /\ ~skip_alt(e.ignore_current) THEN test.vs
          ELSE on_exit(test.vs, e.old),
          [if_stmt EXCEPT !.c = <<test.x, cons.x>>
                                \o (IF skip_alt(e.ignore_current) /\ Len(if_stmt.c) = 2
                                    THEN <<>> ELSE <<alt.x>>)]))))))))

visit_mut_if_stmt(vs, if_stmt) ==
    Let(on_enter(vs, if_stmt, "IfStmt"), LAMBDA e :
    IF e.ignore_current = "next" THEN R(on_exit(e.vs, e.old), if_stmt)
    ELSE
    Let(mark_prepend_stmt_counter(e.vs, if_stmt.sp), LAMBDA marked :
    Let(get_range_from_span(if_stmt.sp), LAMBDA range :
    Let(new_branch(marked.cov, "If", range, FALSE), LAMBDA a :
    Let(IF skip_cons(e.ignore_current)
        THEN R([marked EXCEPT !.cov = a.cov], if_stmt.c[2])
        ELSE wrap_with_counter([marked EXCEPT !.cov = a.cov], if_stmt.c[2], a.id, range,
                               e.ignore_current), LAMBDA cons :
    Let(IF skip_alt(e.ignore_current)
        THEN R(cons.vs, IF Len(if_stmt.c) = 3 THEN if_stmt.c[3] ELSE BlockStmt(<<>>, DUMMY_SP))
        ELSE wrap_with_counter(cons.vs,
                               IF Len(if_stmt.c) = 3 THEN if_stmt.c[3]
                               ELSE BlockStmt(<<>>, DUMMY_SP),
                               a.id, range, e.ignore_current), LAMBDA alt :
    Let(Visit(alt.vs, if_stmt.c[1]), LAMBDA test :
        R(on_exit(test.vs, e.old),
          [if_stmt EXCEPT !.c = <<test.x, cons.x>>
                                \o (IF skip_alt(e.ignore_current) /\ Len(if_stmt.c) = 2
                                    THEN <<>> ELSE <<alt.x>>)]))))))))

wrap_bin_expr_with_branch_counter(vs, branch, expr) ==
    IF HasLogicalExpr(expr)
    THEN Let(Visit(LogicalExprVisitor_new(vs.cov, vs.nodes, should_ignore(expr.sp), branch),
                   expr), LAMBDA r :
             R([vs EXCEPT !.cov = r.vs.cov, !.panic = @ \/ r.vs.panic], r.x))
    ELSE IF opts.report_logic THEN R(vs, expr)
    ELSE replace_expr_with_branch_counter(vs, expr, branch)

\* the mutant: the right operand is wrapped before the left one
visit_mut_bin_expr_RightFirst(vs, bin_expr) ==
    IF bin_expr.v \in LogicalOps
    THEN IF lookup_hint_comments(bin_expr.sp) = "next"
         THEN Let(VisitChildren(Push(vs, "LogicalExpr"), bin_expr), LAMBDA r :
                  R(Pop(r.vs), r.x))
         ELSE Let(new_branch(vs.cov, "BinaryExpr", get_range_from_span(bin_expr.sp),
                             opts.report_logic), LAMBDA a :
              Let(wrap_bin_expr_with_branch_counter(
                      [Push(vs, "LogicalExpr") EXCEPT !.cov = a.cov], a.id, bin_expr.c[2]),
                  LAMBDA right :
              Let(wrap_bin_expr_with_branch_counter(right.vs, a.id, bin_expr.c[1]),
                  LAMBDA left :
                  R(Pop(left.vs), [bin_expr EXCEPT !.c = <<left.x, right.x>>]))))
    ELSE Let(VisitChildren(Push(vs, "BinExpr"), bin_expr), LAMBDA r : R(Pop(r.vs), r.x))

visit_mut_bin_expr(vs, bin_expr) ==
    IF bin_expr.v \in LogicalOps
    THEN IF lookup_hint_comments(bin_expr.sp) = "next"
         THEN Let(VisitChildren(Push(vs, "LogicalExpr"), bin_expr), LAMBDA r :
                  R(Pop(r.vs), r.x))
         ELSE Let(new_branch(vs.cov, "BinaryExpr", get_range_from_span(bin_expr.sp),
                             opts.report_logic), LAMBDA a :
              Let(wrap_bin_expr_with_branch_counter(
                      [Push(vs, "LogicalExpr") EXCEPT !.cov = a.cov], a.id, bin_expr.c[1]),
                  LAMBDA left :
              Let(wrap_bin_expr_with_branch_counter(left.vs, a.id, bin_expr.c[2]),
                  LAMBDA right :
                  R(Pop(right.vs), [bin_expr EXCEPT !.c = <<left.x, right.x>>]))))
    ELSE Let(VisitChildren(Push(vs, "BinExpr"), bin_expr), LAMBDA r : R(Pop(r.vs), r.x))

\* visitors::logical_expr_visitor: a logical expression met inside a chain has
\* its operands wrapped against the branch of the chain
LogicalExprVisitor_visit_mut_bin_expr(vs, bin_expr) ==
    IF bin_expr.v \in LogicalOps
    THEN Let(wrap_bin_expr_with_branch_counter(vs, vs.branch[1], bin_expr.c[1]),
             LAMBDA left :
         Let(wrap_bin_expr_with_branch_counter(left.vs, vs.branch[1], bin_expr.c[2]),
             LAMBDA right :
             R(right.vs, [bin_expr EXCEPT !.c = <<left.x, right.x>>])))
    ELSE VisitChildren(vs, bin_expr)

---------------------------------------------------------------------------
(* The generated visitor applied to a statement list *)

IdentA == Ident("a", Sp(5, 6))

IdentB == Ident("b", Sp(8, 9))

IdentC == Ident("c", Sp(11, 12))

\* `a || (b && c)`: a chain of two operators
MixedChain ==
    BinExpr("||", IdentA, ParenExpr(BinExpr("&&", IdentB, IdentC, Sp(8, 12)), Sp(7, 13)),
            Sp(5, 13))

\* `a`, `a || b`, `a || b || c`, `a && (b && c)`, `a || (b && c)`, `a + b`
Tests ==
    { IdentA, MixedChain,
      BinExpr("||", IdentA, IdentB, Sp(5, 9)),
      BinExpr("||", BinExpr("||", IdentA, IdentB, Sp(5, 9)), IdentC, Sp(5, 12)),
      BinExpr("&&", IdentA, ParenExpr(BinExpr("&&", IdentB, IdentC, Sp(8, 12)), Sp(7, 13)),
              Sp(5, 13)),
      BinExpr("+", IdentA, IdentB, Sp(5, 9)) }

\* the consequents: `{ x(); }` and `x();`
Consequents == { BlockStmt(<<CallStmt("x", 15)>>, Sp(14, 20)), CallStmt("x", 14) }

\* the alternates: `{ y(); }` and `y();`
Alternates == { BlockStmt(<<CallStmt("y", 23)>>, Sp(22, 28)), CallStmt("y", 22) }

IfStmts ==
    { IfStmt(t, cons, Sp(1, 20)) : t \in Tests, cons \in Consequents }
    \cup { IfElseStmt(t, cons, alt, Sp(1, 28)) :
             t \in Tests, cons \in Consequents, alt \in Alternates }

\* `declare function d();`: a function without a body
FnDeclNoBody == FnDecl("d", Function(<<>>, Sp(1, 20)), Sp(18, 19))

\* `function g() { if (a || b) x(); }`
FnDeclIf ==
    FnDecl("g", Function(<<FnBody(<<IfStmt(BinExpr("||", IdentA, IdentB, Sp(5, 9)),
                                           CallStmt("x", 14), Sp(4, 20))>>,
                                  Sp(3, 22))>>, Sp(1, 22)),
           Sp(1, 2))

Num1(lo) == Nd("Num", Sp(lo, lo + 1), "", 1, <<>>)

\* `{ return 1; }` at lo, as the body of a function
ReturnOneBody(lo) == FnBody(<<ReturnStmt(Num1(lo + 2), Sp(lo + 1, lo + 3))>>, Sp(lo, lo + 4))

\* `function s() { 'use strict'; x(); }`
FnDeclStrict ==
    FnDecl("s", Function(<<FnBody(<<ExprStmt(Str("use strict", Sp(5, 8)), Sp(5, 9)),
                                    CallStmt("x", 11)>>, Sp(3, 17))>>, Sp(1, 17)),
           Sp(1, 2))

\* `var x = 1;`, and `var r = <test>;` for every test expression
VarDecls ==
    { VarDecl(<<VarDeclarator("x", <<Num1(9)>>, Sp(5, 10))>>, Sp(1, 11)),
      VarDecl(<<VarDeclarator("u", <<>>, Sp(5, 6))>>, Sp(1, 7)) }
    \cup { VarDecl(<<VarDeclarator("r", <<t>>, Sp(4, 13))>>, Sp(1, 14)) : t \in Tests }

\* `x => a + b`, `x => a || b` and `x => { x(); return 1; }`
ArrowSum == ArrowExpr(BinExpr("+", IdentA, IdentB, Sp(5, 9)), Sp(3, 9))

ArrowChain == ArrowExpr(BinExpr("||", IdentA, IdentB, Sp(5, 9)), Sp(3, 9))

ArrowBlock ==
    ArrowExpr(FnBody(<<CallStmt("x", 6), ReturnStmt(Num1(13), Sp(12, 15))>>, Sp(5, 17)),
              Sp(3, 17))

Arrows == { ArrowSum, ArrowChain, ArrowBlock }

\* `function () { return 1; }` and `function h() { return 1; }`
FnExprs ==
    { FnExpr(<<>>, Function(<<ReturnOneBody(14)>>, Sp(3, 18))),
      FnExpr(<<Ident("h", Sp(11, 12))>>, Function(<<ReturnOneBody(14)>>, Sp(3, 18))) }

\* `const f = <arrow or function expression>;` and the same expression as a statement
HoistedDecls ==
    { VarDecl(<<VarDeclarator("f", <<e>>, Sp(2, 19))>>, Sp(1, 20)) : e \in Arrows \cup FnExprs }

ExprStmts == { ExprStmt(ParenExpr(e, Sp(2, 19)), Sp(1, 20)) : e \in Arrows \cup FnExprs }

\* `class A { m() { return 1; } }` and `class B { m() { return 1; } "n"() { return 1; } }`
MethodM == ClassMethod(Ident("m", Sp(11, 12)), Function(<<ReturnOneBody(14)>>, Sp(11, 18)),
                       Sp(11, 18))

MethodStrKey == ClassMethod(Str("n", Sp(20, 21)), Function(<<ReturnOneBody(23)>>, Sp(20, 27)),
                            Sp(20, 27))

ClassDecls ==
    { ClassDecl("A", <<MethodM>>, Sp(1, 19)), ClassDecl("B", <<MethodM, MethodStrKey>>, Sp(1, 28)) }

\* `return b;`, `continue;` and `l: x();` at the start of the list
SimpleStmts ==
    { ReturnStmt(IdentB, Sp(1, 10)), ContinueStmt(Sp(1, 10)),
      LabeledStmt("l", CallStmt("x", 4), Sp(1, 8)) }

\* `var d = 7;` and `a || 0;` whose literals are synthesized nodes without a span
SyntheticOperands ==
    { VarDecl(<<VarDeclarator("d", <<Num(7)>>, Sp(5, 10))>>, Sp(1, 11)),
      ExprStmt(BinExpr("||", IdentA, Num(0), Sp(5, 9)), Sp(5, 14)) }

RuleBodies ==
    { <<i>> : i \in IfStmts }
    \cup { <<ExprStmt(t, Sp(5, 14))>> : t \in Tests }
    \cup { <<FnDeclA>>, <<FnDeclNoBody>>, <<FnDeclIf>>, <<FnDeclStrict>>,
           <<CallStmt("foo", 1), ReturnStmt(IdentB, Sp(7, 10))>> }
    \cup { <<st>> : st \in VarDecls \cup HoistedDecls \cup ExprStmts \cup ClassDecls
                                \cup SimpleStmts \cup SyntheticOperands }

\* the positions of the hints: the start of the statement and of its test
HintStores ==
    { NoComments(TRUE), NoComments(FALSE) }
    \cup { OneComment("leading", ProgramSpan.lo, t) :
             t \in {TextIgnoreNext, TextIgnoreIf, TextIgnoreElse, TextPlain} }
    \cup { OneComment("leading", p, TextIgnoreNext) : p \in {3, IdentA.sp.lo, 11} }

InitRules ==
    /\ pc = "rules_start"
    /\ context = [ok |-> TRUE, filename |-> JStr("a.js")]
    /\ config \in { c \in Configs : c.ok }
    /\ \E b \in RuleBodies, cs \in HintStores :
          /\ input = [program |-> Script(b, ProgramSpan), comments |-> cs]
          /\ program = Script(b, ProgramSpan)
          /\ comments = cs
    /\ file_path = Filename(context)
    /\ var_name = get_var_name_hash(Filename(context))
    /\ opts = InstrumentOptions(config)
    /\ cov = SourceCoverage_new(Filename(context), InstrumentOptions(config).report_logic)
    /\ tmpl_map = <<>>
    /\ nodes = <<"Program">>
    /\ run = 1
    /\ prev = NoRun

\* visit_mut_stmts of the generated visitor on the statements of the program
RulesVisitStmts ==
    /\ pc = "rules_start"
    /\ LET r == visit_mut_stmts(Visitor(cov, nodes, <<>>, "none", <<>>), program.c)
       IN  IF r.vs.panic
           THEN /\ pc' = "panicked"
                /\ UNCHANGED << program, cov, nodes >>
           ELSE /\ pc' = "rules_done"
                /\ program' = [program EXCEPT !.c = r.x]
                /\ cov' = r.vs.cov
                /\ nodes' = r.vs.nodes
    /\ UNCHANGED << context, config, comments, input, file_path, var_name, opts,
                    tmpl_map, run, prev >>

\* the rewritten statements are handed to a new visitor of the same file
RulesVisitAgain ==
    /\ pc = "rules_done"
    /\ run < MaxRuns
    /\ input' = [program |-> program, comments |-> comments]
    /\ cov' = SourceCoverage_new(file_path, opts.report_logic)
    /\ run' = run + 1
    /\ pc' = "rules_start"
    /\ UNCHANGED << context, config, comments, program, file_path, var_name, opts,
                    tmpl_map, nodes, prev >>

NextRules == RulesVisitStmts \/ RulesVisitAgain

SpecRules == InitRules /\ [][NextRules]_vars

---------------------------------------------------------------------------
(* Observations used by the properties *)

RECURSIVE StmtsOf(_)
\* the statements of a tree
StmtsOf(node) ==
    (IF node.k \in StmtKinds THEN {node} ELSE {})
    \cup UNION { StmtsOf(node.c[i]) : i \in 1..Len(node.c) }

\* the statements of the input that carry a source span
OriginalStmts == { st \in StmtsOf(input.program) : HasSpan(st) }

\* the statementMap entries recorded for the span of a statement
EntriesOf(st) ==
    LET lo == lookup_char_pos(stmt_span(st).lo)
        hi == lookup_char_pos(stmt_span(st).hi)
    IN  { i \in DOMAIN cov.statementMap :
            cov.statementMap[i] \in { Range_new(lo.line, lo.col, hi.line, hi.col),
                                      Range_new(hi.line, hi.col, lo.line, lo.col) } }

CommentsOf(store, where, pos) ==
    LET m == IF where = "leading" THEN store.leading ELSE store.trailing
    IN  IF pos \in DOMAIN m THEN m[pos] ELSE <<>>

\* the comment store handed to the pass holds an `istanbul ignore file` comment,
\* leading or trailing, at the low or the high end of the program span
FileIgnoreComment ==
    /\ input.comments.present
    /\ \E where \in {"leading", "trailing"} :
       \E pos \in {input.program.sp.lo, input.program.sp.hi} :
          LET cs == CommentsOf(input.comments, where, pos)
          IN  \E i \in 1..Len(cs) :
                 cs[i].kind = "text" /\ IgnoreRegexMatch(cs[i].text, "file")

\* the coverage comments in a store
CoverageComments(store) ==
    { <<pos, i>> \in (DOMAIN store.trailing) \X (1..3) :
         i <= Len(store.trailing[pos]) /\ store.trailing[pos][i].kind = "coverage" }

\* a finished run that was not file-ignored
Processed == pc = "done" /\ ~FileIgnoreComment

\* the input is the output of an earlier pass for this file
InputInstrumented ==
    /\ input.program.k = "Module"
    /\ Len(input.program.c) >= 2
    /\ input.program.c[1] = create_coverage_fn_decl(var_name)
    /\ input.program.c[2] = CoverageFnCall(var_name)

\* the allocations recorded after the map was frozen
AllocsAfterFreeze ==
    { j \in 1..Len(cov.log) :
        /\ cov.log[j].op # "freeze"
        /\ \E i \in 1..(j - 1) : cov.log[i].op = "freeze" }

RECURSIVE NodesOf(_)
\* the nodes of a tree
NodesOf(node) == {node} \cup UNION { NodesOf(node.c[i]) : i \in 1..Len(node.c) }

\* `F().<member>[literal-int]`
IsCounterSlot(m, F) ==
    /\ m.k = "Member" /\ m.v = "computed" /\ m.c[2].k = "Num"
    /\ m.c[1].k = "Member" /\ m.c[1].v = "ident"
    /\ m.c[1].c[1].k = "Call"
    /\ m.c[1].c[1].c[1] = F

\* `F().<member>[literal-int]++`
OneIndexCounter(x, F) == x.k = "Update" /\ IsCounterSlot(x.c[1], F)

\* `F().<member>[literal-int][literal-int]++`
TwoIndexCounter(x, F) ==
    /\ x.k = "Update"
    /\ x.c[1].k = "Member" /\ x.c[1].v = "computed" /\ x.c[1].c[2].k = "Num"
    /\ IsCounterSlot(x.c[1].c[1], F)

\* the nodes of the program that the pass has emitted
EmittedNodes == NodesOf(program) \ NodesOf(input.program)

\* the (member, id) pairs named by the counter expressions the pass has emitted
CounterRefs ==
    LET F == CovFnIdent(var_name)
    IN  { <<x.c[1].c[1].c[2].v, x.c[1].c[2].n>> :
            x \in { y \in EmittedNodes : OneIndexCounter(y, F) } }
        \cup
        { <<x.c[1].c[1].c[1].c[2].v, x.c[1].c[1].c[2].n>> :
            x \in { y \in EmittedNodes : TwoIndexCounter(y, F) } }

\* the ids handed out for a category, in the order of allocation
AllocatedIds(op) ==
    LET keep(e) == e.op = op
        picked == SelectSeq(cov.log, keep)
    IN  [i \in 1..Len(picked) |-> picked[i].id]

\* a pass has finished rewriting the program
PassFinished == pc = "rules_done" \/ Processed

\* the `if` statements of the input
InputIfStmts == { st \in NodesOf(input.program) : st.k = "If" }

\* a leading comment at the start of the statement carries `istanbul ignore <word>`
HintOn(st, word) ==
    /\ input.comments.present
    /\ LET cs == CommentsOf(input.comments, "leading", st.sp.lo)
       IN  \E i \in 1..Len(cs) : cs[i].kind = "text" /\ IgnoreRegexMatch(cs[i].text, word)

\* the range of a span, by the position service
RangeOf(sp) ==
    Range_new(lookup_char_pos(sp.lo).line, lookup_char_pos(sp.lo).col,
              lookup_char_pos(sp.hi).line, lookup_char_pos(sp.hi).col)

RECURSIVE LeafCount(_)
\* the leaf operands of a logical chain, seen through parentheses
LeafCount(expr) ==
    IF expr.k = "Bin" /\ expr.v \in LogicalOps
    THEN LeafCount(expr.c[1]) + LeafCount(expr.c[2])
    ELSE IF expr.k = "Paren" /\ expr.c[1].k = "Bin" /\ expr.c[1].v \in LogicalOps
    THEN LeafCount(expr.c[1])
    ELSE 1

\* the logical expressions of the input
InputChains == { n \in NodesOf(input.program) : n.k = "Bin" /\ n.v \in LogicalOps }

\* the node kinds that have a rewrite rule of their own
RuleKinds ==
    {"Return", "ExprStmt", "FnDecl", "FnExpr", "Arrow", "ClassMethod", "VarDeclarator", "If",
     "Labeled", "Continue"}

\* the hint scanner yields Next for the node
HintNext(n) ==
    /\ input.comments.present
    /\ LET cs == CommentsOf(input.comments, "leading", stmt_span(n).lo)
       IN  \E i \in 1..Len(cs) : cs[i].kind = "text" /\ IgnoreRegexMatch(cs[i].text, "next")

\* the ranges of the spans of a subtree
RangesIn(n) == { RangeOf(m.sp) : m \in { x \in NodesOf(n) : HasSpan(x) } }

\* the ranges the map records: statements, function declarations and bodies, branches
RecordedRanges ==
    { cov.statementMap[i] : i \in DOMAIN cov.statementMap }
    \cup { cov.fnMap[i].decl : i \in DOMAIN cov.fnMap }
    \cup { cov.fnMap[i].loc : i \in DOMAIN cov.fnMap }
    \cup { cov.branchMap[i].loc : i \in DOMAIN cov.branchMap }

\* the initializers of the declarators of the input
Initializers ==
    { d.c[1] : d \in { x \in NodesOf(input.program) : x.k = "VarDeclarator" /\ Len(x.c) = 1 } }

\* the recorded ranges that belong to the subtree of n; the statement of an
\* initializer is recorded by the rule of its declarator
RecordedIn(n) ==
    (RangesIn(n) \cap RecordedRanges) \ (IF n \in Initializers THEN {RangeOf(n.sp)} ELSE {})

\* the first pass over an input has finished
FirstPassDone == pc = "rules_done" /\ run = 1

---------------------------------------------------------------------------
(* Properties of the pass *)

\* C1: when the comment store holds an `istanbul ignore file` comment, leading or
\* trailing, at the low or the high end of the program span, the pass never
\* descends into the program and returns the input program unchanged: no preamble,
\* no trailing coverage comment, nothing allocated in the coverage map.
C1_FileIgnoreReturnsInput ==
    FileIgnoreComment =>
        /\ pc # "children_visited"
        /\ program = input.program
        /\ comments = input.comments
        /\ tmpl_map = <<>>
        /\ cov.log = <<>>
        /\ DOMAIN cov.statementMap = {} /\ DOMAIN cov.fnMap = {} /\ DOMAIN cov.branchMap = {}

\* C1 witness: a finished run on a non-empty program whose only ignore comment
\* trails the high end of the program span
C1_Witness ==
    /\ pc = "done"
    /\ FileIgnoreComment
    /\ Len(input.program.c) > 0
    /\ CommentsOf(input.comments, "leading", input.program.sp.lo) = <<>>
    /\ CommentsOf(input.comments, "trailing", input.program.sp.hi) # <<>>

\* C2 as stated: after a pass every original statement with a source span has
\* exactly one statementMap entry and nothing else has one.
C2_EveryStatementOnce ==
    Processed =>
        /\ \A st \in OriginalStmts : Cardinality(EntriesOf(st)) = 1
        /\ Cardinality(DOMAIN cov.statementMap) = Cardinality(OriginalStmts)

\* C3: at every point of a pass the statement ids, the function ids and the
\* branch ids recorded in the map are each exactly 0..N-1, N the number of
\* allocations of the category, the ids of a category were handed out in strictly
\* increasing order, and once the pass has finished every id named by a counter
\* expression of the program is an id of the map of its category.
C3_IdDensity ==
    /\ DOMAIN cov.statementMap = 0..(Len(AllocatedIds("s")) - 1)
    /\ DOMAIN cov.fnMap = 0..(Len(AllocatedIds("f")) - 1)
    /\ DOMAIN cov.branchMap = 0..(Len(AllocatedIds("b")) - 1)
    /\ \A op \in {"s", "f", "b"} :
          \A i, j \in DOMAIN AllocatedIds(op) :
             i < j => AllocatedIds(op)[i] < AllocatedIds(op)[j]
    /\ PassFinished =>
          \A ref \in CounterRefs :
             /\ ref[1] = "s" => ref[2] \in DOMAIN cov.statementMap
             /\ ref[1] = "f" => ref[2] \in DOMAIN cov.fnMap
             /\ ref[1] = "b" => ref[2] \in DOMAIN cov.branchMap

\* C3 witness: a finished pass that allocated statements, a function and a branch
\* and emitted a counter for each category
C3_Witness ==
    /\ pc = "rules_done"
    /\ Len(AllocatedIds("s")) >= 2 /\ Len(AllocatedIds("f")) >= 1
    /\ Len(AllocatedIds("b")) >= 2
    /\ {"s", "f", "b"} \subseteq { ref[1] : ref \in CounterRefs }

C5_LogicalLeafLocations ==
    (pc = "rules_done" /\ run = 1) =>
       \A id \in DOMAIN cov.branchMap :
          cov.branchMap[id].type = "BinaryExpr" =>
             \E ch \in InputChains :
                /\ cov.branchMap[id].loc = RangeOf(ch.sp)
                /\ Len(cov.branchMap[id].locations) = LeafCount(ch)

\* C6 as stated: the detector accepts every counter expression of the program
\* that names the coverage function of the file, with one index or with two, and
\* no statement id is allocated for a counter statement.
C6_DetectorComplete ==
    /\ \A x \in NodesOf(program) :
          (OneIndexCounter(x, CovFnIdent(var_name)) \/ TwoIndexCounter(x, CovFnIdent(var_name)))
             => is_injected_counter_expr(x, CovFnIdent(var_name))
    /\ \A id \in DOMAIN cov.statementMap : cov.statementMap[id] # RangeOf(DUMMY_SP)

\* C7 as stated: an input that already carries the preamble of this file is
\* returned unchanged, with no allocation and no further coverage comment.
C7_InstrumentedPassThrough ==
    (pc = "done" /\ InputInstrumented) =>
        /\ program = input.program
        /\ comments = input.comments
        /\ cov.log = <<>>

\* C8 as stated: for a processed program the map is frozen after the traversal,
\* nothing is allocated after the freeze, the preamble and the trailing comment
\* carry the same frozen map, and the comment is attached exactly once.
C8_FreezeOrdering ==
    Processed =>
        /\ cov.frozen
        /\ AllocsAfterFreeze = {}
        /\ tmpl_map = <<Serialize(cov)>>
        /\ comments.present =>
              /\ Cardinality(CoverageComments(comments))
                    = Cardinality(CoverageComments(input.comments)) + 1
              /\ LET cs == CommentsOf(comments, "trailing", program.sp.hi)
                 IN  cs[Len(cs)].data = tmpl_map

\* C9 as stated: the body of every processed program, module or script, starts
\* with the declaration of F and the call `F();`, followed by the original
\* top-level items in their original order.
C9_PreamblePrepended ==
    Processed =>
        /\ Len(program.c) = Len(input.program.c) + 2
        /\ program.c[1] = create_coverage_fn_decl(var_name)
        /\ program.c[2] = CoverageFnCall(var_name)
        /\ \A i \in 1..Len(input.program.c) :
              /\ program.c[i + 2].k = input.program.c[i].k
              /\ program.c[i + 2].sp = input.program.c[i].sp

C11_IgnoreNextSubtree ==
    FirstPassDone =>
        \A n \in NodesOf(input.program) :
            (n.k \in RuleKinds /\ HintNext(n)) =>
                /\ n \in NodesOf(program)
                /\ RecordedIn(n) = {}

\* the statement `F().b[id][k]++;`
BranchCounterStmt(id, k) ==
    ExprStmt(create_increase_expression_expr("b", id, CovFnIdent(var_name), <<k>>), DUMMY_SP)

\* arm is a block that starts with `b[id][k]++` and still holds the original arm:
\* the statements of an original block, or the original single statement last
ArmRewritten(arm, id, k, orig) ==
    /\ arm.k = "Block" /\ Len(arm.c) >= 1
    /\ arm.c[1] = BranchCounterStmt(id, k)
    /\ IF orig.k = "Block"
       THEN arm.sp = orig.sp
            /\ \A i \in 1..Len(orig.c) : \E j \in 2..Len(arm.c) : arm.c[j] = orig.c[i]
       ELSE arm.c[Len(arm.c)] = orig

\* the path indices of the branch counters of id that start the arm
ArmPaths(arm, id) ==
    { k \in 0..1 : arm.k = "Block" /\ Len(arm.c) >= 1 /\ arm.c[1] = BranchCounterStmt(id, k) }

\* the rewritten `if` of the program that stands for the `if` n of the input
RewrittenIfs(n) == { m \in NodesOf(program) : m.k = "If" /\ m.sp = n.sp }

\* C12 as stated: for an `if` the rule has run on, path index 0 only ever starts the
\* consequent and path index 1 only the alternate; without an arm hint both arms
\* are blocks that start with their counter and still hold the original arm, a
\* missing alternate being an empty block first.
C12_IfArmsRewritten ==
    FirstPassDone =>
        \A id \in DOMAIN cov.branchMap : cov.branchMap[id].type = "If" =>
            \E n \in InputIfStmts : \E m \in RewrittenIfs(n) :
                /\ cov.branchMap[id].loc = RangeOf(n.sp)
                /\ ArmPaths(m.c[2], id) \subseteq {0}
                /\ Len(m.c) = 3 => ArmPaths(m.c[3], id) \subseteq {1}
                /\ (~HintOn(n, "if") /\ ~HintOn(n, "else")) =>
                       /\ Len(m.c) = 3
                       /\ ArmRewritten(m.c[2], id, 0, n.c[2])
                       /\ ArmRewritten(m.c[3], id, 1,
                                       IF Len(n.c) = 3 THEN n.c[3] ELSE BlockStmt(<<>>, DUMMY_SP))

RECURSIVE Leaves(_, _)
\* the leaf operands of expr, left to right, where an operand is descended into
\* when it is a logical expression, parenthesized or not, with an operator of ops
Leaves(expr, ops) ==
    IF expr.k = "Bin" /\ expr.v \in ops
    THEN Leaves(expr.c[1], ops) \o Leaves(expr.c[2], ops)
    ELSE IF expr.k = "Paren" /\ expr.c[1].k = "Bin" /\ expr.c[1].v \in ops
    THEN Leaves(expr.c[1], ops)
    ELSE <<expr>>

RECURSIVE InnerChains(_, _)
\* the logical expressions below expr that are descended into with it
InnerChains(expr, ops) ==
    IF expr.k = "Bin" /\ expr.v \in ops
    THEN {expr} \cup InnerChains(expr.c[1], ops) \cup InnerChains(expr.c[2], ops)
    ELSE IF expr.k = "Paren" /\ expr.c[1].k = "Bin" /\ expr.c[1].v \in ops
    THEN InnerChains(expr.c[1], ops)
    ELSE {}

\* `(F().b[id][k]++, leaf)`
WrappedLeaf(id, k, leaf) ==
    ParenExpr(SeqExpr(<<create_increase_expression_expr("b", id, CovFnIdent(var_name), <<k>>),
                        leaf>>, DUMMY_SP), DUMMY_SP)

\* the branch id belongs to the chain ch whose operands are descended into through
\* the operators ops: one path per leaf in left-to-right order, every leaf replaced
\* by its wrapped form, and no branch of its own for a logical expression inside
ChainBranch(id, ch, ops) ==
    LET leaves == Leaves(ch.c[1], ops) \o Leaves(ch.c[2], ops)
    IN  /\ cov.branchMap[id].loc = RangeOf(ch.sp)
        /\ cov.branchMap[id].locations = [k \in 1..Len(leaves) |-> RangeOf(leaves[k].sp)]
        /\ \A k \in 1..Len(leaves) : WrappedLeaf(id, k - 1, leaves[k]) \in NodesOf(program)
        /\ \A j \in DOMAIN cov.branchMap :
              /\ (j # id => cov.branchMap[j].loc # RangeOf(ch.sp))
              /\ \A inner \in InnerChains(ch.c[1], ops) \cup InnerChains(ch.c[2], ops) :
                    cov.branchMap[j].loc # RangeOf(inner.sp)

LeafWrapped(leaf) ==
    \E x \in NodesOf(program) : x.k = "Seq" /\ Len(x.c) >= 2 /\ x.c[Len(x.c)] = leaf

\* the leaves of a chain that have a source span
SpannedLeaves(ch, ops) ==
    SelectSeq(Leaves(ch.c[1], ops) \o Leaves(ch.c[2], ops), HasSpan)

\* ChainBranch for the leaves that have a source span; a leaf without one is not
\* wrapped
SpannedChainBranch(id, ch, ops) ==
    LET leaves == SpannedLeaves(ch, ops)
        all == Leaves(ch.c[1], ops) \o Leaves(ch.c[2], ops)
    IN  /\ cov.branchMap[id].loc = RangeOf(ch.sp)
        /\ cov.branchMap[id].locations = [k \in 1..Len(leaves) |-> RangeOf(leaves[k].sp)]
        /\ \A k \in 1..Len(leaves) : WrappedLeaf(id, k - 1, leaves[k]) \in NodesOf(program)
        /\ \A k \in 1..Len(all) : ~HasSpan(all[k]) => ~LeafWrapped(all[k])
        /\ \A j \in DOMAIN cov.branchMap :
              /\ (j # id => cov.branchMap[j].loc # RangeOf(ch.sp))
              /\ \A inner \in InnerChains(ch.c[1], ops) \cup InnerChains(ch.c[2], ops) :
                    cov.branchMap[j].loc # RangeOf(inner.sp)

C14_ReportLogicNotDegraded ==
    (FirstPassDone /\ opts.report_logic) =>
        \A id \in DOMAIN cov.branchMap : cov.branchMap[id].type = "BinaryExpr" =>
            \A ch \in InputChains : cov.branchMap[id].loc = RangeOf(ch.sp) =>
                LET leaves == Leaves(ch.c[1], LogicalOps) \o Leaves(ch.c[2], LogicalOps)
                IN  \A k \in 1..Len(leaves) :
                        /\ LeafWrapped(leaves[k])
                        /\ \E j \in 1..Len(cov.branchMap[id].locations) :
                               cov.branchMap[id].locations[j] = RangeOf(leaves[k].sp)

\* neither the node nor a node around it carries an `ignore next` hint
NotIgnored(n) ==
    \A a \in NodesOf(input.program) : n \in NodesOf(a) => ~HintNext(a)

\* the function declarations, function expressions and class methods of the input
\* that have a body
InputFunctions ==
    { n \in NodesOf(input.program) :
        /\ n.k \in {"FnDecl", "FnExpr", "ClassMethod"}
        /\ Len(n.c[Len(n.c)].c) = 1 }

\* the body of a function declaration, function expression or class method
BodyOf(n) == n.c[Len(n.c)].c[1]

\* the fnMap entries recorded for a body
FnEntriesOf(body) == { i \in DOMAIN cov.fnMap : cov.fnMap[i].loc = RangeOf(body.sp) }

\* the statement `F().f[id]++;`
FnCounterStmt(id) ==
    ExprStmt(create_increase_expression_expr("f", id, CovFnIdent(var_name), <<>>), DUMMY_SP)

\* the body has one fnMap entry and, rewritten, starts with the counter of that entry
FunctionCovered(body) ==
    /\ Cardinality(FnEntriesOf(body)) = 1
    /\ \E out \in NodesOf(program) :
          /\ out.k = "FnBody" /\ out.sp = body.sp
          /\ Len(out.c) >= 1
          /\ \A id \in FnEntriesOf(body) : out.c[1] = FnCounterStmt(id)

\* C15 as stated: every function declaration, function expression and class method
\* with a body that is not ignored has exactly one fnMap entry, and its body starts
\* with `f[id]++`, ahead of the statement counters of the body.
C15_FunctionRule ==
    FirstPassDone =>
        \A n \in InputFunctions : NotIgnored(n) => FunctionCovered(BodyOf(n))

\* the statement `F().s[id]++;`
StmtCounterStmt(id) ==
    ExprStmt(create_increase_expression_expr("s", id, CovFnIdent(var_name), <<>>), DUMMY_SP)

RECURSIVE StripCounters(_)
\* the expression with every `(counter, e)` put back to e
StripCounters(x) ==
    IF /\ x.k = "Paren" /\ x.c[1].k = "Seq" /\ Len(x.c[1].c) = 2
       /\ (OneIndexCounter(x.c[1].c[1], CovFnIdent(var_name))
             \/ TwoIndexCounter(x.c[1].c[1], CovFnIdent(var_name)))
    THEN StripCounters(x.c[1].c[2])
    ELSE [x EXCEPT !.c = [i \in 1..Len(x.c) |-> StripCounters(x.c[i])]]

\* the arrow expressions of the input
InputArrows == { n \in NodesOf(input.program) : n.k = "Arrow" }

\* the fnMap entries recorded for an arrow
ArrowEntries(n) == { i \in DOMAIN cov.fnMap : cov.fnMap[i].decl = RangeOf(n.sp) }

\* s is the counter of a statement entry recorded for the span sp
CountsSpan(s, sp) ==
    \E k \in DOMAIN cov.statementMap :
        s = StmtCounterStmt(k) /\ cov.statementMap[k] = RangeOf(sp)

\* out is the rewritten body of the arrow n for the function id
ArrowBodyRewritten(n, out, id) ==
    LET body == n.c[1]
    IN  /\ out.k = "FnBody" /\ Len(out.c) >= 1
        /\ out.c[1] = FnCounterStmt(id)
        /\ IF body.k = "FnBody"
           THEN /\ out.sp = body.sp
                /\ Len(out.c) = 1 + 2 * Len(body.c)
                /\ \A i \in 1..Len(body.c) :
                      /\ CountsSpan(out.c[2 * i], body.c[i].sp)
                      /\ out.c[2 * i + 1] = body.c[i]
           ELSE /\ Len(out.c) = 3
                /\ CountsSpan(out.c[2], body.sp)
                /\ out.c[3].k = "Return" /\ out.c[3].sp = body.sp
                /\ StripCounters(out.c[3].c[1]) = body

InputDeclarators ==
    { n \in NodesOf(input.program) :
        n.k = "VarDeclarator" /\ Len(n.c) = 1 /\ HasSpan(n.c[1]) }

\* the statement ids recorded for the initializer of a declarator
InitEntries(n) ==
    { k \in DOMAIN cov.statementMap : cov.statementMap[k] = RangeOf(n.c[1].sp) }

\* the declarator n has become `name = (s[id]++, init)`
InitWrapped(n, id) ==
    \E m \in NodesOf(program) :
        /\ m.k = "VarDeclarator" /\ m.sp = n.sp /\ Len(m.c) = 1
        /\ m.c[1].k = "Paren" /\ m.c[1].c[1].k = "Seq" /\ Len(m.c[1].c[1].c) = 2
        /\ m.c[1].c[1].c[1] = create_increase_expression_expr("s", id, CovFnIdent(var_name), <<>>)
        /\ StripCounters(m.c[1].c[1].c[2]) = n.c[1]

\* the declarator n has kept its initializer, up to what the rule of the
\* initializer does inside it
InitKept(n) ==
    \E m \in NodesOf(program) :
        /\ m.k = "VarDeclarator" /\ m.sp = n.sp /\ Len(m.c) = 1
        /\ m.c[1].k = n.c[1].k /\ m.c[1].sp = n.c[1].sp

\* the statement `s[id]++;` stands in a statement list of the program
CounterPrepended(id) == StmtCounterStmt(id) \in EmittedNodes

\* the initializer holds a function, arrow or class expression
Hoisting(n) == HoistingFinder(n.c[1]) \/ BlockStmtFinder(n.c[1]) \/ StmtFinder(n.c[1])

IllTypedOption(cfg) ==
    \/ cfg.coverageVariable.t \notin {"null", "str"}
    \/ cfg.compact.t \notin {"null", "bool"}
    \/ cfg.reportLogic.t \notin {"null", "bool"}

\* C18: when the configuration payload cannot be decoded, or one of the options
\* coverageVariable, compact and reportLogic holds a value of an unexpected type,
\* the pass aborts: it never gets past decoding, no options are built from
\* defaults and the program is never rewritten.
C18_ConfigError ==
    (~config.ok \/ IllTypedOption(config)) =>
        /\ pc \in {"start", "panicked"}
        /\ program = input.program

\* the class methods of the input that the ignoreClassMethods option names
ListedMethods ==
    { n \in NodesOf(input.program) :
        /\ n.k = "ClassMethod"
        /\ \E i \in 1..Len(config.ignoreClassMethods) : config.ignoreClassMethods[i] = n.c[1].v }

\* C19: a class method whose name the ignoreClassMethods option lists gets no
\* function id and keeps its body as it is; a class method that is not listed and
\* not ignored is covered by the function rule.
C19_IgnoreClassMethods ==
    FirstPassDone =>
        \A n \in { x \in NodesOf(input.program) : x.k = "ClassMethod" } :
            IF n \in ListedMethods
            THEN FnEntriesOf(BodyOf(n)) = {} /\ n \in NodesOf(program)
            ELSE NotIgnored(n) => FunctionCovered(BodyOf(n))

---------------------------------------------------------------------------
(* Execution.  What a program does is a trace of observations: the calls it  *)
(* makes, the values of its expression statements, the bindings of its       *)
(* declarations, and for every function it defines what a call of that       *)
(* function does and whether its body is strict code.  An update of a        *)
(* counter of the coverage record is not an observation.                     *)

\* a value or an observation
Ob(k, s, n, c) == [k |-> k, s |-> s, n |-> n, c |-> c]

Undefined == Ob("undefined", "", 0, <<>>)

\* the outcome of an evaluation: the trace, the value, the completion
Res(tr, v, ctl) == [tr |-> tr, v |-> v, ctl |-> ctl]

\* the free identifiers of the inputs, and what they may hold: a truthy value,
\* a falsy value that is not nullish, null
FreeIdents == {"a", "b", "c"}

Envs == [FreeIdents -> {"t", "f", "n"}]

Truthy(v, env) ==
    IF v.k = "ident" /\ v.s \in FreeIdents THEN env[v.s] = "t"
    ELSE IF v.k = "num" THEN v.n # 0
    ELSE IF v.k = "str" THEN v.s # ""
    ELSE v.k # "undefined"

Nullish(v, env) ==
    \/ v.k = "undefined"
    \/ v.k = "ident" /\ v.s \in FreeIdents /\ env[v.s] = "n"

\* an update of a counter of the coverage record
IsCounter(x) ==
    OneIndexCounter(x, CovFnIdent(var_name)) \/ TwoIndexCounter(x, CovFnIdent(var_name))

\* the directive prologue of a body, the leading expression statements that are
\* string literals, holds `use strict`
IsStrict(stmts) ==
    \E i \in 1..Len(stmts) :
        /\ \A j \in 1..i : stmts[j].k = "ExprStmt" /\ stmts[j].c[1].k = "Str"
        /\ stmts[i].c[1].v = "use strict"

RECURSIVE Exec(_, _), ExecList(_, _, _, _), FnOb(_, _, _)

\* the nodes of a list, one after the other, until one completes abruptly
ExecList(list, i, env, acc) ==
    IF i > Len(list) \/ acc.ctl # "next" THEN acc
    ELSE Let(Exec(list[i], env), LAMBDA r :
             ExecList(list, i + 1, env, Res(acc.tr \o r.tr, r.v, r.ctl)))

\* what a call of the function does
FnOb(body, strict, env) ==
    IF body.k = "FnBody"
    THEN Let(ExecList(body.c, 1, env, Res(<<>>, Undefined, "next")), LAMBDA r :
             Ob("function", IF strict \/ IsStrict(body.c) THEN "strict" ELSE "sloppy", 0,
                r.tr \o <<Ob("return", "", 0,
                              <<IF r.ctl = "return" THEN r.v ELSE Undefined>>)>>))
    ELSE Let(Exec(body, env), LAMBDA r :
             Ob("function", IF strict THEN "strict" ELSE "sloppy", 0,
                r.tr \o <<Ob("return", "", 0, <<r.v>>)>>))

Exec(node, env) ==
    CASE node.k = "Ident" -> Res(<<>>, Ob("ident", node.v, 0, <<>>), "next")
      [] node.k = "Num" -> Res(<<>>, Ob("num", "", node.n, <<>>), "next")
      [] node.k = "Str" -> Res(<<>>, Ob("str", node.v, 0, <<>>), "next")
      [] node.k = "Call" ->
            Let(Exec(node.c[1], env), LAMBDA f :
                Res(f.tr \o <<Ob("call", "", 0, <<f.v>>)>>, Ob("result", "", 0, <<f.v>>),
                    "next"))
      [] node.k = "Member" ->
            Let(ExecList(node.c, 1, env, Res(<<>>, Undefined, "next")), LAMBDA r :
                Res(r.tr, Ob("member", node.v, 0, <<r.v>>), "next"))
      [] node.k = "Update" ->
            IF IsCounter(node) THEN Res(<<>>, Undefined, "next")
            ELSE Let(Exec(node.c[1], env), LAMBDA r :
                     Res(r.tr \o <<Ob("update", node.v, 0, <<r.v>>)>>, r.v, "next"))
      [] node.k = "Bin" ->
            Let(Exec(node.c[1], env), LAMBDA l :
                IF \/ node.v = "||" /\ Truthy(l.v, env)
                   \/ node.v = "&&" /\ ~Truthy(l.v, env)
                   \/ node.v = "??" /\ ~Nullish(l.v, env)
                THEN l
                ELSE Let(Exec(node.c[2], env), LAMBDA r :
                         IF node.v \in LogicalOps THEN Res(l.tr \o r.tr, r.v, "next")
                         ELSE Res(l.tr \o r.tr, Ob("binary", node.v, 0, <<l.v, r.v>>),
                                  "next")))
      [] node.k \in {"Paren", "Seq"} ->
            Let(ExecList(node.c, 1, env, Res(<<>>, Undefined, "next")), LAMBDA r :
                Res(r.tr, r.v, "next"))
      [] node.k = "Arrow" -> Res(<<>>, FnOb(node.c[1], FALSE, env), "next")
      [] node.k = "FnExpr" ->
            Res(<<>>, IF Len(node.c[Len(node.c)].c) = 1
                      THEN FnOb(node.c[Len(node.c)].c[1], FALSE, env)
                      ELSE Undefined, "next")
      [] node.k = "ExprStmt" ->
            IF IsCounter(node.c[1]) THEN Res(<<>>, Undefined, "next")
            ELSE Let(Exec(node.c[1], env), LAMBDA r :
                     Res(r.tr \o <<Ob("value", "", 0, <<r.v>>)>>, Undefined, "next"))
      [] node.k \in {"Block", "Script", "Module", "VarDecl"} ->
            ExecList(node.c, 1, env, Res(<<>>, Undefined, "next"))
      [] node.k = "Return" ->
            Let(Exec(node.c[1], env), LAMBDA r : Res(r.tr, r.v, "return"))
      [] node.k = "If" ->
            Let(Exec(node.c[1], env), LAMBDA t :
                IF Truthy(t.v, env)
                THEN Let(Exec(node.c[2], env), LAMBDA r : Res(t.tr \o r.tr, r.v, r.ctl))
                ELSE IF Len(node.c) = 3
                THEN Let(Exec(node.c[3], env), LAMBDA r : Res(t.tr \o r.tr, r.v, r.ctl))
                ELSE Res(t.tr, Undefined, "next"))
      [] node.k = "FnDecl" ->
            IF Len(node.c[1].c) = 1
            THEN Res(<<Ob("define", node.v, 0, <<FnOb(node.c[1].c[1], FALSE, env)>>)>>,
                     Undefined, "next")
            ELSE Res(<<>>, Undefined, "next")
      [] node.k = "VarDeclarator" ->
            IF Len(node.c) = 1
            THEN Let(Exec(node.c[1], env), LAMBDA r :
                     Res(r.tr \o <<Ob("bind", node.v, 0, <<r.v>>)>>, Undefined, "next"))
            ELSE Res(<<>>, Undefined, "next")
      [] node.k = "ClassDecl" ->
            Res(<<Ob("class", node.v, 0,
                     [i \in 1..Len(node.c) |->
                        Ob("method", node.c[i].c[1].v, 0,
                           <<FnOb(node.c[i].c[2].c[1], TRUE, env)>>)])>>,
                Undefined, "next")
      [] node.k = "Labeled" -> Exec(node.c[1], env)
      [] node.k = "Continue" -> Res(<<>>, Undefined, "continue")
      [] OTHER -> Res(<<>>, Undefined, "next")

\* no comment of the input is an ignore directive
NoDirectives ==
    \A w \in {"leading", "trailing"} :
        \A pos \in 0..ProgramSpan.hi :
            LET cs == CommentsOf(input.comments, w, pos)
            IN  \A i \in 1..Len(cs) :
                   cs[i].kind = "text" =>
                       \A word \in {"next", "if", "else", "file"} :
                           ~IgnoreRegexMatch(cs[i].text, word)

\* C20: for an input without ignore directives the instrumented program does what
\* the input does, whatever the free identifiers hold: the same calls, values and
\* bindings in the same order, and functions that do the same when called, the
\* updates of the coverage record left aside.
C20_Preservation ==
    (FirstPassDone /\ NoDirectives) =>
        \A env \in Envs : Exec(program, env) = Exec(input.program, env)

\* the start of a range does not lie after its end
WellFormed(r) ==
    \/ r.start.line < r.end.line
    \/ r.start.line = r.end.line /\ r.start.column <= r.end.column

\* C21: every range of statementMap is the range of the span of a node of the
\* input, its start taken from the low offset of the span and its end from the
\* high offset, and so its start does not lie after its end.
C21_RangesWellFormed ==
    \A id \in DOMAIN cov.statementMap :
        /\ WellFormed(cov.statementMap[id])
        /\ \E n \in NodesOf(input.program) :
              cov.statementMap[id] = RangeOf(stmt_span(n))

\* the NodePath of the visitor of a statement of the program
StmtPath == Append(nodes, "Stmts")

\* the logical expressions of the input that carry an `ignore next` hint
HintedChains == { n \in InputChains : lookup_hint_comments(n.sp) = "next" }

\* C22: the NodePath is balanced.  Before and after a pass it is the path the
\* pass started with, and the rule of any node of the program, entered with any
\* ignore scope, leaves the path as it found it: every kind pushed is popped on
\* every exit, the early returns of an ignored `if`, of an `if` with a synthesized
\* alternate and of a logical expression under `ignore next` included.
C22_NodePathBalanced ==
    /\ pc \in {"rules_start", "rules_done"} => nodes = <<"Program">>
    /\ pc = "rules_start" =>
          \A n \in NodesOf(program) : \A ignore \in {"none", "next", "if", "else"} :
              Visit(StmtVisitor_new(cov, StmtPath, ignore), n).vs.nodes = StmtPath

\* a pass has finished over an `if` without alternate whose test is a logical
\* expression under `ignore next`
C22_Witness ==
    /\ FirstPassDone
    /\ nodes = <<"Program">>
    /\ program # input.program
    /\ \E n \in NodesOf(input.program) :
          n.k = "If" /\ Len(n.c) = 2 /\ n.c[1] \in HintedChains

\* the functions of the input that have no body
BodylessFunctions ==
    { n \in NodesOf(input.program) :
        n.k \in {"FnDecl", "FnExpr", "ClassMethod"} /\ Len(n.c[Len(n.c)].c) = 0 }

\* C23: when the input holds a function without a body the pass never completes:
\* it stops at the function rule, the program and the comments stay as they were
\* handed in, and the function entry allocated before the stop is in no map that
\* the pass hands out.
C23_BodylessAborts ==
    BodylessFunctions # {} =>
        /\ pc \in {"rules_start", "panicked"}
        /\ program = input.program
        /\ comments = input.comments
        /\ DOMAIN cov.fnMap = {}

\* the function rule has met a function without a body and the pass has stopped
C23_Witness == pc = "panicked" /\ BodylessFunctions # {}

\* a statement that updates a counter of the coverage record
IsCounterStmt(st) == st.k = "ExprStmt" /\ IsCounter(st.c[1])

\* out is the statement st after the pass: the same kind at the same span
SameStatement(st, out) == out.k = st.k /\ out.sp = st.sp

RECURSIVE OnlyInserted(_, _, _, _)
\* from the i-th statement of list and the j-th of out on, out is list with
\* counter statements inserted before its statements, none before a statement
\* of the shape of an injected counter, which is kept as it is, and none after
\* the last statement
OnlyInserted(list, out, i, j) ==
    IF i > Len(list) THEN j > Len(out)
    ELSE IF j > Len(out) THEN FALSE
    ELSE IF IsCounterStmt(list[i])
    THEN out[j] = list[i] /\ OnlyInserted(list, out, i + 1, j + 1)
    ELSE IF SameStatement(list[i], out[j]) THEN OnlyInserted(list, out, i + 1, j + 1)
    ELSE IsCounterStmt(out[j]) /\ OnlyInserted(list, out, i, j + 1)

\* the body of the program without the preamble that the pass has put before it
RewrittenBody ==
    IF program.k = "Module" /\ program # input.program
    THEN SubSeq(program.c, 3, Len(program.c))
    ELSE program.c

\* C24: the pass only inserts into the body of the program.  Every statement of
\* the input is in the output once and in the input's order, every other
\* statement of the output is the update of a counter and stands before a
\* statement of the input, and a statement of the input that has the shape of an
\* injected counter is kept as it is with nothing inserted before it.
C24_OnlyInserts ==
    PassFinished => OnlyInserted(input.program.c, RewrittenBody, 1, 1)

\* what a node names when it is the update of a counter: the member, the id and
\* the path index, -1 for a counter of one index
RefOf(x) ==
    IF OneIndexCounter(x, CovFnIdent(var_name))
    THEN <<x.c[1].c[1].c[2].v, x.c[1].c[2].n, -1>>
    ELSE <<x.c[1].c[1].c[1].c[2].v, x.c[1].c[1].c[2].n, x.c[1].c[2].n>>

RECURSIVE RefCount(_, _), RefCountList(_, _, _)
\* the number of counter updates in a tree that name ref
RefCount(node, ref) ==
    (IF IsCounter(node) /\ RefOf(node) = ref THEN 1 ELSE 0)
    + RefCountList(node.c, 1, ref)

RefCountList(list, i, ref) ==
    IF i > Len(list) THEN 0
    ELSE RefCount(list[i], ref) + RefCountList(list, i + 1, ref)

\* the counters of the map: one of a statement, one of a function, one of a path
\* of a branch
MapRefs ==
    { <<"s", i, -1>> : i \in DOMAIN cov.statementMap }
    \cup { <<"f", i, -1>> : i \in DOMAIN cov.fnMap }
    \cup UNION { { <<"b", i, j - 1>> : j \in 1..Len(cov.branchMap[i].locations) } :
                 i \in DOMAIN cov.branchMap }

\* the counters that the updates of the program name
ProgramRefs == { RefOf(x) : x \in { y \in NodesOf(program) : IsCounter(y) } }

\* the input holds no counter update
UninstrumentedInput == \A y \in NodesOf(input.program) : ~IsCounter(y)

====
